---- MODULE Spec2Model ----
(***************************************************************************)
(* A model of the table commands of prosemirror-tables-sections            *)
(* (src/commands.ts) together with the helpers of src/util.ts they use.    *)
(*                                                                         *)
(* A document is one table node followed by an empty paragraph.  The table *)
(* is kept as a tree (children -> rows -> cells); every position used by   *)
(* the code is a ProseMirror position, computed from the node sizes of     *)
(* that tree exactly as ProseMirror counts them (one token for the opening *)
(* and one for the closing of every node, one per character of text).      *)
(***************************************************************************)
EXTENDS Integers, Sequences, FiniteSets, TLC

(***************************************************************************)
(* Bounds of the model.                                                    *)
(***************************************************************************)
MaxW == 3
MaxH == 3
MaxSpans == 2
SmallW == 2
SmallH == 2

(***************************************************************************)
(* The document model.                                                     *)
(*   child   : [role, rows, size]   role "caption" (size = its node size)  *)
(*             or a section "head" / "body" / "foot" (rows = its rows)     *)
(*   row     : a sequence of cells                                         *)
(*   cell    : [type, colspan, rowspan, colwidth, bg, content]             *)
(*   content : a sequence of paragraphs; paragraph 0 is the empty          *)
(*             paragraph, paragraph k > 0 holds the one-character text k   *)
(* colwidth = <<>> stands for the attribute value null.                    *)
(***************************************************************************)
TableStart == 1

NoWidths == <<>>

Min(a, b) == IF a < b THEN a ELSE b

Max(a, b) == IF a > b THEN a ELSE b

isTableSection(child) == child.role \in {"head", "body", "foot"}

ParaSize(p) == IF p = 0 THEN 2 ELSE 3

RECURSIVE ContentSize(_)
ContentSize(ps) ==
  IF ps = <<>> THEN 0 ELSE ParaSize(Head(ps)) + ContentSize(Tail(ps))

CellSize(c) == 2 + ContentSize(c.content)

RECURSIVE CellsSize(_, _)
CellsSize(row, n) ==
  IF n = 0 THEN 0 ELSE CellSize(row[n]) + CellsSize(row, n - 1)

RowSize(row) == 2 + CellsSize(row, Len(row))

RECURSIVE RowsSize(_, _)
RowsSize(rows, n) ==
  IF n = 0 THEN 0 ELSE RowSize(rows[n]) + RowsSize(rows, n - 1)

ChildSize(child) ==
  IF isTableSection(child) THEN 2 + RowsSize(child.rows, Len(child.rows))
  ELSE child.size

RECURSIVE ChildrenSize(_, _)
ChildrenSize(table, n) ==
  IF n = 0 THEN 0 ELSE ChildSize(table[n]) + ChildrenSize(table, n - 1)

TableContentSize(table) == ChildrenSize(table, Len(table))

(* Offsets, relative to the start of the table's content, of the boundary  *)
(* before child ci, before row ri of child ci, before cell ki of that row. *)
(* An index one past the last element names the boundary after it.         *)
ChildStart(table, ci) == ChildrenSize(table, ci - 1)

RowStart(table, ci, ri) ==
  ChildStart(table, ci) + 1 + RowsSize(table[ci].rows, ri - 1)

CellStart(table, ci, ri, ki) ==
  RowStart(table, ci, ri) + 1 + CellsSize(table[ci].rows[ri], ki - 1)

(***************************************************************************)
(* ResolvedPos: the node a table-relative offset lies in and its index     *)
(* there.  depth "table": between children (index ci); "section": between  *)
(* the rows of section ci (index ri); "row": between the cells of a row    *)
(* (index ki); "cell": inside cell ki, off tokens after its opening;       *)
(* "caption": inside the caption; "out": not inside the table.             *)
(***************************************************************************)
NoPos == [depth |-> "out", ci |-> 0, ri |-> 0, ki |-> 0, off |-> 0]

RECURSIVE ResolveInRow(_, _, _, _, _, _)
ResolveInRow(row, p, start, k, ci, ri) ==
  IF p = start
    THEN [depth |-> "row", ci |-> ci, ri |-> ri, ki |-> k, off |-> 0]
  ELSE IF p < start + CellSize(row[k])
    THEN [depth |-> "cell", ci |-> ci, ri |-> ri, ki |-> k,
          off |-> p - start - 1]
  ELSE ResolveInRow(row, p, start + CellSize(row[k]), k + 1, ci, ri)

RECURSIVE ResolveInSection(_, _, _, _, _)
ResolveInSection(rows, p, start, r, ci) ==
  IF p = start
    THEN [depth |-> "section", ci |-> ci, ri |-> r, ki |-> 0, off |-> 0]
  ELSE IF p < start + RowSize(rows[r])
    THEN ResolveInRow(rows[r], p, start + 1, 1, ci, r)
  ELSE ResolveInSection(rows, p, start + RowSize(rows[r]), r + 1, ci)

RECURSIVE ResolveInTable(_, _, _, _)
ResolveInTable(table, p, start, c) ==
  IF p = start
    THEN [depth |-> "table", ci |-> c, ri |-> 0, ki |-> 0, off |-> 0]
  ELSE IF p < start + ChildSize(table[c])
    THEN IF isTableSection(table[c])
           THEN ResolveInSection(table[c].rows, p, start + 1, 1, c)
           ELSE [depth |-> "caption", ci |-> c, ri |-> 0, ki |-> 0,
                 off |-> p - start - 1]
  ELSE ResolveInTable(table, p, start + ChildSize(table[c]), c + 1)

Resolve(table, p) ==
  IF p < 0 \/ p > TableContentSize(table) THEN NoPos
  ELSE ResolveInTable(table, p, 0, 1)

(* Whether offset p is the position right before a cell (pointsAtCell).    *)
PointsAtCell(table, p) ==
  LET At(rp) == /\ rp.depth = "row"
                /\ rp.ki <= Len(table[rp.ci].rows[rp.ri])
  IN  At(Resolve(table, p))

NoCell ==
  [type |-> "none", colspan |-> 0, rowspan |-> 0, colwidth |-> NoWidths,
   bg |-> 0, content |-> <<>>]

(* Node.nodeAt restricted to cells: the cell that starts at offset p, or   *)
(* NoCell when no cell starts there.                                       *)
nodeAt(table, p) ==
  LET At(rp) ==
        IF rp.depth = "row" /\ rp.ki <= Len(table[rp.ci].rows[rp.ri])
          THEN table[rp.ci].rows[rp.ri][rp.ki]
          ELSE NoCell
  IN  At(Resolve(table, p))

(***************************************************************************)
(* Row / section addressing (util.ts).                                     *)
(***************************************************************************)
NoRowRef == [found |-> FALSE, ci |-> 0, ri |-> 0]

RECURSIVE getRowFrom(_, _, _, _, _, _)
getRowFrom(table, row, tc, rPos, prevSectionsRows, sectionIndex) ==
  IF tc > Len(table)
    THEN [node |-> NoRowRef, pos |-> rPos, section |-> sectionIndex]
    ELSE
      LET section == table[tc]
          sectionRows == Len(section.rows)
      IN  IF ~isTableSection(section)
            THEN getRowFrom(table, row, tc + 1, rPos + ChildSize(section),
                            prevSectionsRows, sectionIndex)
          ELSE IF sectionRows = 0
            THEN getRowFrom(table, row, tc + 1, rPos,
                            prevSectionsRows, sectionIndex + 1)
          ELSE IF prevSectionsRows + sectionRows <= row
            THEN IF tc = Len(table)
                   THEN [node |-> NoRowRef,
                         pos |-> rPos + ChildSize(section) - 1,
                         section |-> sectionIndex + 1]
                   ELSE getRowFrom(table, row, tc + 1,
                                   rPos + ChildSize(section),
                                   prevSectionsRows + sectionRows,
                                   sectionIndex + 1)
          ELSE
            LET r == IF row >= prevSectionsRows
                       THEN row - prevSectionsRows ELSE sectionRows
            IN  [node |-> IF r >= sectionRows THEN NoRowRef
                          ELSE [found |-> TRUE, ci |-> tc, ri |-> r + 1],
                 pos |-> rPos + 1 + RowsSize(section.rows, r)
                              + (IF r = sectionRows THEN 1 ELSE 0),
                 section |-> sectionIndex + 1]

(* getRow that counts the sections from 1.                                 *)
getRowFromOne(table, row) == getRowFrom(table, row, 1, 0, 0, 0)

getRow(table, row) == getRowFrom(table, row, 1, 0, 0, -1)

rowPos(table, row) == getRow(table, row).pos

RECURSIVE rowAtPosFrom(_, _, _, _, _, _)
rowAtPosFrom(table, pos, c, r, rpos, row) ==
  IF c > Len(table) THEN row
  ELSE IF ~isTableSection(table[c])
    THEN rowAtPosFrom(table, pos, c + 1, 1, rpos + ChildSize(table[c]), row)
  ELSE IF r > Len(table[c].rows)
    THEN rowAtPosFrom(table, pos, c + 1, 1,
                      rpos + (IF Len(table[c].rows) = 0 THEN 2 ELSE 1), row)
  ELSE
    LET rp == (IF r = 1 THEN rpos + 1 ELSE rpos) + RowSize(table[c].rows[r])
    IN  IF pos < rp THEN row
        ELSE rowAtPosFrom(table, pos, c, r + 1, rp, row + 1)

(* rowAtPos that starts one offset late.                                   *)
rowAtPosLate(table, pos) == rowAtPosFrom(table, pos, 1, 1, 1, 0)

rowAtPos(table, pos) == rowAtPosFrom(table, pos, 1, 1, 0, 0)

rowsCount(table) ==
  LET secs == {c \in 1..Len(table) : isTableSection(table[c])}
      RECURSIVE Count(_)
      Count(n) ==
        IF n = 0 THEN 0
        ELSE (IF n \in secs THEN Len(table[n].rows) ELSE 0) + Count(n - 1)
  IN  Count(Len(table))

(***************************************************************************)
(* The grid map (TableMap of tablemap.ts).                                 *)
(*   [width, height, map, sectionRows]; map is indexed from 0, row-major,  *)
(*   and holds for every slot the offset of the cell occupying it (0 for a *)
(*   slot no cell occupies).  Rows, columns and section indices start at 0 *)
(*   as in the code.                                                       *)
(***************************************************************************)
Sections(table) == SelectSeq([c \in 1..Len(table) |-> c],
                             LAMBDA c : isTableSection(table[c]))

RowRefsOf(table, ci) ==
  [ri \in 1..Len(table[ci].rows) |-> [found |-> TRUE, ci |-> ci, ri |-> ri]]

RECURSIVE RowRefsFrom(_, _)
RowRefsFrom(table, c) ==
  IF c > Len(table) THEN <<>>
  ELSE (IF isTableSection(table[c]) THEN RowRefsOf(table, c) ELSE <<>>)
         \o RowRefsFrom(table, c + 1)

(* The rows of the table in document order; logical row r is RowRefs[r+1]. *)
RowRefs(table) == RowRefsFrom(table, 1)

RowOf(table, ref) == table[ref.ci].rows[ref.ri]

RECURSIVE ColspanSum(_, _)
ColspanSum(row, n) ==
  IF n = 0 THEN 0 ELSE row[n].colspan + ColspanSum(row, n - 1)

RECURSIVE SpanningInto(_, _, _, _)
SpanningInto(row, n, j, r) ==
  IF n = 0 THEN 0
  ELSE (IF j + row[n].rowspan > r THEN row[n].colspan ELSE 0)
         + SpanningInto(row, n - 1, j, r)

RECURSIVE FromRowsAbove(_, _, _, _)
FromRowsAbove(table, refs, j, r) ==
  IF j >= r THEN 0
  ELSE SpanningInto(RowOf(table, refs[j + 1]),
                    Len(RowOf(table, refs[j + 1])), j, r)
         + FromRowsAbove(table, refs, j + 1, r)

RECURSIVE findWidthFrom(_, _, _)
findWidthFrom(table, refs, r) ==
  IF r >= Len(refs) THEN 0
  ELSE Max(ColspanSum(RowOf(table, refs[r + 1]),
                      Len(RowOf(table, refs[r + 1])))
             + FromRowsAbove(table, refs, 0, r),
           findWidthFrom(table, refs, r + 1))

findWidth(table) == findWidthFrom(table, RowRefs(table), 0)

RECURSIVE SkipFilled(_, _)
SkipFilled(m, mapPos) ==
  IF mapPos \in DOMAIN m /\ m[mapPos] # 0
    THEN SkipFilled(m, mapPos + 1) ELSE mapPos

PlaceCell(m, width, height, row, mapPos, cell, pos) ==
  [i \in DOMAIN m |->
     IF /\ m[i] = 0
        /\ i >= mapPos
        /\ (i - mapPos) % width < cell.colspan
        /\ (i - mapPos) \div width < cell.rowspan
        /\ (i - mapPos) \div width + row < height
       THEN pos ELSE m[i]]

RECURSIVE PlaceRow(_, _, _, _, _, _, _, _)
PlaceRow(cells, m, width, height, row, k, mapPos, pos) ==
  IF k > Len(cells) THEN m
  ELSE LET at == SkipFilled(m, mapPos)
       IN  PlaceRow(cells,
                    PlaceCell(m, width, height, row, at, cells[k], pos),
                    width, height, row, k + 1, at + cells[k].colspan,
                    pos + CellSize(cells[k]))

RECURSIVE PlaceRows(_, _, _, _, _, _)
PlaceRows(table, refs, m, width, height, row) ==
  IF row >= height THEN m
  ELSE PlaceRows(table, refs,
                 PlaceRow(RowOf(table, refs[row + 1]), m, width, height,
                          row, 1, row * width,
                          RowStart(table, refs[row + 1].ci,
                                   refs[row + 1].ri) + 1),
                 width, height, row + 1)

sectionRowsOf(table) ==
  LET secs == Sections(table)
  IN  [s \in 1..Len(secs) |-> Len(table[secs[s]].rows)]

TableMapGet(table) ==
  LET Build(refs, width, height) ==
        [width |-> width,
         height |-> height,
         map |-> PlaceRows(table, refs,
                           [i \in 0..(width * height - 1) |-> 0],
                           width, height, 0),
         sectionRows |-> sectionRowsOf(table)]
  IN  Build(RowRefs(table), findWidth(table), Len(RowRefs(table)))

(* map.map[i]; an index outside the array reads undefined, modelled as -1. *)
MapAt(map, i) == IF i \in DOMAIN map.map THEN map.map[i] ELSE -1

NoRect == [left |-> -1, top |-> -1, right |-> -1, bottom |-> -1]

RECURSIVE RunRight(_, _, _, _)
RunRight(map, i, j, right) ==
  IF right < map.width /\ MapAt(map, i + j) = map.map[i]
    THEN RunRight(map, i, j + 1, right + 1) ELSE right

RECURSIVE RunDown(_, _, _, _)
RunDown(map, i, j, bottom) ==
  IF bottom < map.height /\ MapAt(map, i + map.width * j) = map.map[i]
    THEN RunDown(map, i, j + 1, bottom + 1) ELSE bottom

FirstIndex(map, pos) ==
  LET hits == {i \in DOMAIN map.map : map.map[i] = pos}
  IN  IF hits = {} THEN -1
      ELSE CHOOSE i \in hits : \A j \in hits : i <= j

findCell(map, pos) ==
  LET At(i) ==
        IF i < 0 THEN NoRect
        ELSE [left |-> i % map.width,
              top |-> i \div map.width,
              right |-> RunRight(map, i, 1, (i % map.width) + 1),
              bottom |-> RunDown(map, i, 1, (i \div map.width) + 1)]
  IN  At(FirstIndex(map, pos))

colCount(map, pos) ==
  LET At(i) == IF i < 0 THEN -1 ELSE i % map.width
  IN  At(FirstIndex(map, pos))

rectBetween(map, a, b) ==
  LET Join(ra, rb) ==
        IF ra = NoRect \/ rb = NoRect THEN NoRect
        ELSE [left |-> Min(ra.left, rb.left),
              top |-> Min(ra.top, rb.top),
              right |-> Max(ra.right, rb.right),
              bottom |-> Max(ra.bottom, rb.bottom)]
  IN  Join(findCell(map, a), findCell(map, b))

(* cellsInRect: the offsets of the cells anchored in rect, in row-major    *)
(* order, each once.                                                       *)
RECURSIVE cellsInRectFrom(_, _, _, _, _)
cellsInRectFrom(map, rect, row, col, seen) ==
  IF row >= rect.bottom THEN <<>>
  ELSE IF col >= rect.right
    THEN cellsInRectFrom(map, rect, row + 1, rect.left, seen)
  ELSE
    LET index == row * map.width + col
        pos == MapAt(map, index)
    IN  IF pos \in seen
          THEN cellsInRectFrom(map, rect, row, col + 1, seen)
        ELSE IF \/ (col = rect.left /\ col # 0
                      /\ MapAt(map, index - 1) = pos)
                \/ (row = rect.top /\ row # 0
                      /\ MapAt(map, index - map.width) = pos)
          THEN cellsInRectFrom(map, rect, row, col + 1, seen \cup {pos})
        ELSE <<pos>> \o cellsInRectFrom(map, rect, row, col + 1,
                                         seen \cup {pos})

cellsInRect(map, rect) ==
  cellsInRectFrom(map, rect, rect.top, rect.left, {})

(* The section (from 0) that holds logical row r.                          *)
RECURSIVE SectionOfRowFrom(_, _, _, _)
SectionOfRowFrom(sectionRows, r, s, acc) ==
  IF s >= Len(sectionRows) THEN Len(sectionRows) - 1
  ELSE IF r < acc + sectionRows[s + 1] THEN s
  ELSE SectionOfRowFrom(sectionRows, r, s + 1, acc + sectionRows[s + 1])

SectionOfRow(map, r) == SectionOfRowFrom(map.sectionRows, r, 0, 0)

RECURSIVE sectionsInRectFrom(_, _, _)
sectionsInRectFrom(map, rect, s) ==
  IF s >= Len(map.sectionRows) THEN <<>>
  ELSE (IF \E r \in rect.top..(rect.bottom - 1) : SectionOfRow(map, r) = s
          THEN <<s>> ELSE <<>>)
         \o sectionsInRectFrom(map, rect, s + 1)

sectionsInRect(map, rect) == sectionsInRectFrom(map, rect, 0)

rectOverOneSection(map, rect) ==
  \A r \in rect.top..(rect.bottom - 1) :
    SectionOfRow(map, r) = SectionOfRow(map, rect.top)

(* positionAt(row, col, table): the offset of the first cell of the row    *)
(* that starts in it at or after column col, or of the end of the row.     *)
RECURSIVE SkipFromAbove(_, _, _, _)
SkipFromAbove(map, index, rowEndIndex, rowStart) ==
  IF index < rowEndIndex /\ MapAt(map, index) < rowStart
    THEN SkipFromAbove(map, index + 1, rowEndIndex, rowStart) ELSE index

positionAt(map, row, col, table) ==
  LET Found(rowEnd, rowEndIndex, index) ==
        IF index = rowEndIndex THEN rowEnd - 1 ELSE MapAt(map, index)
      InRow(got, rowEndIndex) ==
        Found(got.pos + RowSize(RowOf(table, got.node)), rowEndIndex,
              SkipFromAbove(map, col + row * map.width, rowEndIndex,
                            got.pos))
  IN  InRow(getRow(table, row), (row + 1) * map.width)

(***************************************************************************)
(* The input tables.  A table is described by its grid size, the rows per  *)
(* section and the section roles, a set of at most MaxSpans spanning cells *)
(* (each inside one section) and the patterns that fix the type, colwidth  *)
(* and content of every cell.                                              *)
(***************************************************************************)
RECURSIVE SeqSum(_)
SeqSum(f) == IF f = <<>> THEN 0 ELSE Head(f) + SeqSum(Tail(f))

Compositions(h) ==
  UNION {{f \in [1..l -> 1..h] : SeqSum(f) = h} : l \in 1..h}

RoleSeqs(l) ==
  {f \in [1..l -> {"head", "body", "foot"}] :
     \A i \in 1..l : (f[i] = "head" => i = 1) /\ (f[i] = "foot" => i = l)}

BigRects(w, h, comp) ==
  {b \in [top : 0..(h - 1), left : 0..(w - 1), rs : 1..h, cs : 1..w] :
     /\ b.top + b.rs <= h
     /\ b.left + b.cs <= w
     /\ b.rs * b.cs > 1
     /\ SectionOfRowFrom(comp, b.top, 0, 0)
          = SectionOfRowFrom(comp, b.top + b.rs - 1, 0, 0)}

Covers(b, r, c) ==
  /\ b.top <= r /\ r < b.top + b.rs
  /\ b.left <= c /\ c < b.left + b.cs

Disjoint(a, b) ==
  \/ a.top + a.rs <= b.top \/ b.top + b.rs <= a.top
  \/ a.left + a.cs <= b.left \/ b.left + b.cs <= a.left

RECURSIVE Layouts(_, _, _, _)
Layouts(w, h, comp, k) ==
  IF k = 0 THEN {{}}
  ELSE LET less == Layouts(w, h, comp, k - 1)
       IN  less \cup
           UNION {{l \cup {b} : b \in {x \in BigRects(w, h, comp) :
                                         \A y \in l : Disjoint(x, y)}}
                  : l \in less}

TypeAt(tp, r, c) ==
  CASE tp = "plain" -> "cell"
    [] tp = "all" -> "header_cell"
    [] tp = "hrow" -> IF r = 0 THEN "header_cell" ELSE "cell"
    [] tp = "hcol" -> IF c = 0 THEN "header_cell" ELSE "cell"
    [] tp = "hboth" -> IF r = 0 \/ c = 0 THEN "header_cell" ELSE "cell"
    [] OTHER -> IF (r + c) % 2 = 1 THEN "header_cell" ELSE "cell"

WidthAt(wp, c) ==
  IF wp = 1 \/ c % 2 = 0 THEN 10 * (c + 1) ELSE 0

WidthsAt(wp, c, cs) ==
  LET ws == [i \in 1..cs |-> WidthAt(wp, c + i - 1)]
  IN  IF wp = 0 \/ \A i \in 1..cs : ws[i] = 0 THEN NoWidths ELSE ws

ContentAt(cp, r, c, w) ==
  IF cp = 0 \/ (cp = 2 /\ (r + c) % 2 = 1) THEN <<0>>
  ELSE <<r * w + c + 1>>

MkCell(r, c, rs, cs, w, tp, wp, cp) ==
  [type |-> TypeAt(tp, r, c), colspan |-> cs, rowspan |-> rs,
   colwidth |-> WidthsAt(wp, c, cs), bg |-> 0,
   content |-> ContentAt(cp, r, c, w)]

RECURSIVE MkRowFrom(_, _, _, _, _, _, _)
MkRowFrom(r, c, w, bigs, tp, wp, cp) ==
  IF c >= w THEN <<>>
  ELSE LET over == {b \in bigs : Covers(b, r, c)}
       IN  (IF over = {} THEN <<MkCell(r, c, 1, 1, w, tp, wp, cp)>>
            ELSE LET b == CHOOSE b \in over : TRUE
                 IN  IF b.top = r /\ b.left = c
                       THEN <<MkCell(r, c, b.rs, b.cs, w, tp, wp, cp)>>
                       ELSE <<>>)
             \o MkRowFrom(r, c + 1, w, bigs, tp, wp, cp)

MkSection(role, first, n, w, bigs, tp, wp, cp) ==
  [role |-> role,
   rows |-> [i \in 1..n |-> MkRowFrom(first + i - 1, 0, w, bigs, tp, wp, cp)],
   size |-> 0]

MkCaption(size) == [role |-> "caption", rows |-> <<>>, size |-> size]

MkTable(w, comp, roles, bigs, cap, tp, wp, cp) ==
  (IF cap > 0 THEN <<MkCaption(cap)>> ELSE <<>>)
    \o [s \in 1..Len(comp) |->
          MkSection(roles[s], SeqSum(SubSeq(comp, 1, s - 1)), comp[s],
                    w, bigs, tp, wp, cp)]

Tables(Ws, Hs, k, Caps, TPs, WPs, CPs) ==
  UNION {UNION {UNION {
    {MkTable(w, comp, roles, bigs, cap, tp, wp, cp) :
       roles \in RoleSeqs(Len(comp)), cap \in Caps,
       tp \in TPs, wp \in WPs, cp \in CPs}
    : bigs \in Layouts(w, h, comp, k)}
    : comp \in Compositions(h)}
    : w \in Ws, h \in Hs}

(***************************************************************************)
(* Selections.  "none": the cursor is in the paragraph after the table;    *)
(* "text": a collapsed text selection inside the cell at anchor;           *)
(* "cell": a CellSelection with the given anchor and head cells.           *)
(* anchor and head are document positions of cells.                        *)
(***************************************************************************)
NoSelection == [kind |-> "none", anchor |-> 0, head |-> 0]

TextSel(pos) == [kind |-> "text", anchor |-> pos, head |-> pos]

CellSel(a, h) == [kind |-> "cell", anchor |-> a, head |-> h]

RECURSIVE CellStartsInRow(_, _, _)
CellStartsInRow(row, k, pos) ==
  IF k > Len(row) THEN {}
  ELSE {pos} \cup CellStartsInRow(row, k + 1, pos + CellSize(row[k]))

(* The document positions of all cells of the table.                       *)
CellPositions(table) ==
  UNION {CellStartsInRow(RowOf(table, ref), 1,
                         TableStart + RowStart(table, ref.ci, ref.ri) + 1)
         : ref \in {RowRefs(table)[i] : i \in 1..Len(RowRefs(table))}}

Selections(table) ==
  LET ps == CellPositions(table)
  IN  {NoSelection} \cup {TextSel(a) : a \in ps}
        \cup {CellSel(a, h) : a \in ps, h \in ps}

(***************************************************************************)
(* Transactions.  A transaction holds the document as edited so far, the   *)
(* step maps of its steps (one [start, old, new] range per step; a         *)
(* setNodeMarkup step maps every position to itself) and the selection it  *)
(* sets, if any.  ok turns FALSE when a step is addressed to a position    *)
(* where the document holds no node of the kind the step needs; exact      *)
(* turns FALSE when a node is inserted at a position that is not a         *)
(* boundary between the nodes of its kind, where the replace step has to   *)
(* close the nodes that are open at the position to place it.              *)
(***************************************************************************)
NewTr(st) ==
  [table |-> st.table, maps |-> <<>>, ok |-> TRUE, exact |-> TRUE,
   selSet |-> FALSE, sel |-> st.sel]

StepMap(start, old, new) == [start |-> start, old |-> old, new |-> new]

IdentityMap == StepMap(0, 0, 0)

(* StepMap.map for one range.                                              *)
MapThrough(m, pos, assoc) ==
  IF m.start > pos THEN pos
  ELSE IF pos <= m.start + m.old
    THEN LET side == IF m.old = 0 THEN assoc
                     ELSE IF pos = m.start THEN -1
                     ELSE IF pos = m.start + m.old THEN 1
                     ELSE assoc
         IN  m.start + (IF side < 0 THEN 0 ELSE m.new)
  ELSE pos + m.new - m.old

(* Mapping.map over the maps from index `from` (counted from 1) on.        *)
RECURSIVE MapFrom(_, _, _, _)
MapFrom(maps, from, pos, assoc) ==
  IF from > Len(maps) THEN pos
  ELSE MapFrom(maps, from + 1, MapThrough(maps[from], pos, assoc), assoc)

MapPos(tr, pos) == MapFrom(tr.maps, 1, pos, 1)

MapPosSlice(tr, mapStart, pos) == MapFrom(tr.maps, mapStart + 1, pos, 1)

Fail(tr) == [tr EXCEPT !.ok = FALSE]

InsertAt(seq, i, x) == SubSeq(seq, 1, i - 1) \o <<x>> \o SubSeq(seq, i, Len(seq))

RemoveRange(seq, i, j) == SubSeq(seq, 1, i - 1) \o SubSeq(seq, j, Len(seq))

IsCellPos(rp, table) ==
  rp.depth = "row" /\ rp.ki <= Len(table[rp.ci].rows[rp.ri])

(* tr.setNodeMarkup(pos, type, attrs) on a cell; type "" keeps the type.   *)
TrSetNodeMarkup(tr, pos, type, attrs) ==
  LET New(old) == [type |-> IF type = "" THEN old.type ELSE type,
                   colspan |-> attrs.colspan,
                   rowspan |-> attrs.rowspan,
                   colwidth |-> attrs.colwidth,
                   bg |-> attrs.bg,
                   content |-> old.content]
      At(rp) ==
        IF ~tr.ok \/ ~IsCellPos(rp, tr.table) THEN Fail(tr)
        ELSE [tr EXCEPT !.table[rp.ci].rows[rp.ri][rp.ki] = New(@),
                        !.maps = Append(@, IdentityMap)]
  IN  At(Resolve(tr.table, pos - TableStart))

(* tr.insert(pos, cell): pos must lie between the cells of a row.          *)
TrInsertCell(tr, pos, cell) ==
  LET At(rp) ==
        IF ~tr.ok \/ rp.depth # "row" THEN Fail(tr)
        ELSE [tr EXCEPT
                !.table[rp.ci].rows[rp.ri] = InsertAt(@, rp.ki, cell),
                !.maps = Append(@, StepMap(pos, 0, CellSize(cell)))]
  IN  At(Resolve(tr.table, pos - TableStart))

(* tr.insert(pos, row).  Between the rows of a section the row is placed   *)
(* there.  At the end of a row, or at the end of the content of the last   *)
(* cell of a row, the replace step closes the open cell and row and places *)
(* the new row right after that row, in the same section.                  *)
TrInsertRow(tr, pos, row) ==
  LET Placed(ci, ri, old) ==
        [tr EXCEPT !.table[ci].rows = InsertAt(@, ri, row),
                   !.maps = Append(@, StepMap(pos, old, old + RowSize(row))),
                   !.exact = @ /\ old = 0]
      At(rp, cells) ==
        IF ~tr.ok THEN Fail(tr)
        ELSE IF rp.depth = "section" THEN Placed(rp.ci, rp.ri, 0)
        ELSE IF rp.depth = "row" /\ rp.ki = Len(cells) + 1
          THEN Placed(rp.ci, rp.ri + 1, 1)
        ELSE IF /\ rp.depth = "cell" /\ rp.ki = Len(cells)
                /\ rp.off = CellSize(cells[rp.ki]) - 2
          THEN Placed(rp.ci, rp.ri + 1, 2)
        ELSE Fail(tr)
      In(rp) == At(rp, tr.table[rp.ci].rows[rp.ri])
  IN  In(Resolve(tr.table, pos - TableStart))

(* tr.insert(pos, section / caption).  Between the children of the table   *)
(* the node is placed there; at the end of the content of a section the    *)
(* replace step closes the section and places the node right after it.     *)
TrInsertChild(tr, pos, child) ==
  LET Placed(ci, old) ==
        [tr EXCEPT !.table = InsertAt(@, ci, child),
                   !.maps = Append(@, StepMap(pos, old,
                                              old + ChildSize(child))),
                   !.exact = @ /\ old = 0]
      At(rp) ==
        IF ~tr.ok THEN Fail(tr)
        ELSE IF rp.depth = "table" THEN Placed(rp.ci, 0)
        ELSE IF /\ rp.depth = "section"
                /\ rp.ri = Len(tr.table[rp.ci].rows) + 1
          THEN Placed(rp.ci + 1, 1)
        ELSE Fail(tr)
  IN  At(Resolve(tr.table, pos - TableStart))

(* tr.replaceSelectionWith(newTable) with the table node selected.         *)
TrReplaceTable(tr, newTable) ==
  IF ~tr.ok THEN Fail(tr)
  ELSE [tr EXCEPT !.table = newTable,
                  !.maps = Append(@, StepMap(TableStart - 1,
                                             TableContentSize(tr.table) + 2,
                                             TableContentSize(newTable) + 2))]

(* tr.delete(from, to).  Both ends in the same parent: the nodes between   *)
(* them go.  From before a row to the end of the content of that same row: *)
(* the replace step drops the emptied row as well.                         *)
TrDelete(tr, from, to) ==
  LET Between(a, b) ==
        IF ~tr.ok \/ from > to THEN Fail(tr)
        ELSE IF from = to THEN tr
        ELSE IF /\ a.depth = "row" /\ b.depth = "row"
                /\ a.ci = b.ci /\ a.ri = b.ri
          THEN [tr EXCEPT
                  !.table[a.ci].rows[a.ri] = RemoveRange(@, a.ki, b.ki),
                  !.maps = Append(@, StepMap(from, to - from, 0))]
        ELSE IF a.depth = "section" /\ b.depth = "section" /\ a.ci = b.ci
          THEN [tr EXCEPT
                  !.table[a.ci].rows = RemoveRange(@, a.ri, b.ri),
                  !.maps = Append(@, StepMap(from, to - from, 0))]
        ELSE IF a.depth = "table" /\ b.depth = "table"
          THEN [tr EXCEPT
                  !.table = RemoveRange(@, a.ci, b.ci),
                  !.maps = Append(@, StepMap(from, to - from, 0))]
        ELSE IF /\ a.depth = "section" /\ b.depth = "row"
                /\ a.ci = b.ci /\ a.ri = b.ri
                /\ b.ki = Len(tr.table[b.ci].rows[b.ri]) + 1
                /\ Len(tr.table[a.ci].rows) > 1
          THEN [tr EXCEPT
                  !.table[a.ci].rows = RemoveRange(@, a.ri, a.ri + 1),
                  !.maps = Append(@, StepMap(from, to + 1 - from, 0))]
        ELSE Fail(tr)
  IN  Between(Resolve(tr.table, from - TableStart),
              Resolve(tr.table, to - TableStart))

(* tr.replaceWith(from, to, content) inside the content of one cell.       *)
TrReplaceInCell(tr, from, to, content) ==
  LET EndOf(a) ==
        TableStart + CellStart(tr.table, a.ci, a.ri, a.ki)
          + CellSize(tr.table[a.ci].rows[a.ri][a.ki]) - 1
      In(a, c) ==
        IF ~tr.ok THEN Fail(tr)
        ELSE IF IsCellPos(a, tr.table) /\ to = EndOf(a)
          THEN [tr EXCEPT
                  !.table[a.ci].rows[a.ri][a.ki].content = content,
                  !.maps = Append(@, StepMap(from, to - from,
                                             ContentSize(content)))]
        ELSE IF /\ from = to /\ c.depth = "cell"
                /\ c.off = CellSize(tr.table[c.ci].rows[c.ri][c.ki]) - 2
          THEN [tr EXCEPT
                  !.table[c.ci].rows[c.ri][c.ki].content = @ \o content,
                  !.maps = Append(@, StepMap(from, 0,
                                             ContentSize(content)))]
        ELSE Fail(tr)
  IN  In(Resolve(tr.table, from - 1 - TableStart),
         Resolve(tr.table, from - TableStart))

TrSetSelection(tr, sel) == [tr EXCEPT !.selSet = TRUE, !.sel = sel]

(***************************************************************************)
(* Selection helpers (util.ts) and selectedRect (commands.ts).             *)
(***************************************************************************)
(* isInTable that finds a row around every selection.                      *)
isInTableAlways(st) == TRUE

isInTable(st) == st.sel.kind \in {"text", "cell"}

tableDepth(st) == IF st.sel.kind \in {"text", "cell"} THEN 1 ELSE -1

selectionCell(st) ==
  IF st.sel.kind = "cell" THEN Max(st.sel.anchor, st.sel.head)
  ELSE st.sel.anchor

selectedRect(st) ==
  LET Make(map, rect) ==
        [left |-> rect.left, top |-> rect.top, right |-> rect.right,
         bottom |-> rect.bottom, tableStart |-> TableStart,
         map |-> map, table |-> st.table]
      In(map) ==
        Make(map, IF st.sel.kind = "cell"
                    THEN rectBetween(map, st.sel.anchor - TableStart,
                                     st.sel.head - TableStart)
                    ELSE findCell(map, selectionCell(st) - TableStart))
  IN  In(TableMapGet(st.table))

(* rect.table = tr.doc.nodeAt(rect.tableStart - 1);                        *)
(* rect.map = TableMap.get(rect.table)                                     *)
Refresh(rect, tr) ==
  [rect EXCEPT !.table = tr.table, !.map = TableMapGet(tr.table)]

tableHasCaption(table) == Len(table) > 0 /\ table[1].role = "caption"

tableHasHead(table) == \E c \in 1..Len(table) : table[c].role = "head"

tableHasFoot(table) == \E c \in 1..Len(table) : table[c].role = "foot"

tableSectionsCount(table) == Len(Sections(table))

isRowLastInSection(table, row) ==
  LET Last(got) ==
        got.node.found /\ got.node.ri = Len(table[got.node.ci].rows)
  IN  Last(getRow(table, row))

(***************************************************************************)
(* What a command call gives: its return value, how many times it called   *)
(* the dispatch callback and view.dispatch, the transaction it built, and  *)
(* the section row counts of the input table's cached grid map as the call *)
(* leaves them.                                                            *)
(***************************************************************************)
Refused(st) ==
  [ret |-> FALSE, calls |-> 0, viewCalls |-> 0, tr |-> NewTr(st),
   sectionRows |-> sectionRowsOf(st.table)]

Applicable(st) ==
  [ret |-> TRUE, calls |-> 0, viewCalls |-> 0, tr |-> NewTr(st),
   sectionRows |-> sectionRowsOf(st.table)]

Dispatched(st, tr) ==
  [ret |-> TRUE, calls |-> 1, viewCalls |-> 0, tr |-> tr,
   sectionRows |-> sectionRowsOf(st.table)]

(* type.createAndFill() for a cell type: default attributes, one empty     *)
(* paragraph.                                                              *)
createAndFill(type) ==
  [type |-> type, colspan |-> 1, rowspan |-> 1, colwidth |-> NoWidths,
   bg |-> 0, content |-> <<0>>]

Zeros(n) == [i \in 1..n |-> 0]

(* addColSpan that adds the columns twice.                                 *)
addColSpanTwice(attrs, pos, n) ==
  [attrs EXCEPT
     !.colspan = @ + 2 * n,
     !.colwidth = IF @ = NoWidths THEN @
                  ELSE SubSeq(@, 1, Min(pos, Len(@))) \o Zeros(2 * n)
                         \o SubSeq(@, Min(pos, Len(@)) + 1, Len(@))]

addColSpan(attrs, pos, n) ==
  [attrs EXCEPT
     !.colspan = @ + n,
     !.colwidth = IF @ = NoWidths THEN @
                  ELSE SubSeq(@, 1, Min(pos, Len(@))) \o Zeros(n)
                         \o SubSeq(@, Min(pos, Len(@)) + 1, Len(@))]

(* removeColSpan that keeps a colwidth without a positive entry.           *)
removeColSpanKeepZeros(attrs, pos, n) ==
  [attrs EXCEPT
     !.colspan = @ - n,
     !.colwidth = IF @ = NoWidths THEN @
                  ELSE SubSeq(@, 1, pos) \o SubSeq(@, pos + n + 1, Len(@))]

removeColSpan(attrs, pos, n) ==
  LET cut == IF attrs.colwidth = NoWidths THEN NoWidths
             ELSE SubSeq(attrs.colwidth, 1, pos)
                    \o SubSeq(attrs.colwidth, pos + n + 1,
                              Len(attrs.colwidth))
  IN  [attrs EXCEPT
         !.colspan = @ - n,
         !.colwidth = IF \E i \in 1..Len(cut) : cut[i] > 0
                        THEN cut ELSE NoWidths]

columnIsHeader(map, table, col) ==
  \A row \in 0..(map.height - 1) :
    nodeAt(table, MapAt(map, col + row * map.width)).type = "header_cell"

rowIsHeader(map, table, row) ==
  \A col \in 0..(map.width - 1) :
    nodeAt(table, MapAt(map, col + row * map.width)).type = "header_cell"

(***************************************************************************)
(* Columns.                                                                *)
(***************************************************************************)
RECURSIVE addColumnRows(_, _, _, _, _, _)
addColumnRows(tr, rect, col, plain, refColumn, row) ==
  LET map == rect.map
      index == row * map.width + col
  IN  IF row >= map.height THEN tr
      ELSE IF /\ col > 0 /\ col < map.width
              /\ MapAt(map, index - 1) = MapAt(map, index)
        THEN LET pos == MapAt(map, index)
                 cell == nodeAt(rect.table, pos)
             IN  IF cell = NoCell THEN Fail(tr) ELSE
                 addColumnRows(
                   TrSetNodeMarkup(tr, MapPos(tr, rect.tableStart + pos), "",
                                   addColSpan(cell, col - colCount(map, pos),
                                              1)),
                   rect, col, plain, refColumn, row + cell.rowspan)
        ELSE LET type == IF plain THEN "cell"
                         ELSE nodeAt(rect.table,
                                     MapAt(map, index + refColumn)).type
                 pos == positionAt(map, row, col, rect.table)
             IN  addColumnRows(
                   TrInsertCell(tr, MapPos(tr, rect.tableStart + pos),
                                createAndFill(type)),
                   rect, col, plain, refColumn, row + 1)

(* addColumn that takes the left neighbour's type whatever the column.     *)
addColumnLeftType(tr, rect, col) ==
  addColumnRows(tr, rect, col, FALSE, IF col > 0 THEN -1 ELSE 0, 0)

addColumn(tr, rect, col) ==
  LET Rows(refColumn, header) ==
        addColumnRows(tr, rect, col,
                      header /\ (col = 0 \/ col = rect.map.width),
                      IF header THEN 0 ELSE refColumn, 0)
      Ref(refColumn) ==
        Rows(refColumn, columnIsHeader(rect.map, rect.table, col + refColumn))
  IN  Ref(IF col > 0 THEN -1 ELSE 0)

addColumnBefore(st, dispatch) ==
  LET With(rect) == Dispatched(st, addColumn(NewTr(st), rect, rect.left))
  IN  IF ~isInTable(st) THEN Refused(st)
      ELSE IF dispatch THEN With(selectedRect(st))
      ELSE Applicable(st)

addColumnAfter(st, dispatch) ==
  LET With(rect) == Dispatched(st, addColumn(NewTr(st), rect, rect.right))
  IN  IF ~isInTable(st) THEN Refused(st)
      ELSE IF dispatch THEN With(selectedRect(st))
      ELSE Applicable(st)

RECURSIVE removeColumnRows(_, _, _, _, _)
removeColumnRows(tr, rect, col, mapStart, row) ==
  LET map == rect.map
      index == row * map.width + col
      pos == MapAt(map, index)
      cell == nodeAt(rect.table, pos)
  IN  IF row >= map.height \/ ~tr.ok THEN tr
      ELSE IF cell = NoCell THEN Fail(tr)
      ELSE IF \/ (col > 0 /\ MapAt(map, index - 1) = pos)
              \/ (col < map.width - 1 /\ MapAt(map, index + 1) = pos)
        THEN removeColumnRows(
               TrSetNodeMarkup(tr,
                               MapPosSlice(tr, mapStart,
                                           rect.tableStart + pos), "",
                               removeColSpan(cell, col - colCount(map, pos),
                                             1)),
               rect, col, mapStart, row + cell.rowspan)
        ELSE LET start == MapPosSlice(tr, mapStart, rect.tableStart + pos)
             IN  removeColumnRows(TrDelete(tr, start, start + CellSize(cell)),
                                  rect, col, mapStart, row + cell.rowspan)

removeColumn(tr, rect, col) ==
  removeColumnRows(tr, rect, col, Len(tr.maps), 0)

RECURSIVE deleteColumnFrom(_, _, _)
deleteColumnFrom(tr, rect, i) ==
  LET Rest(after) ==
        IF i = rect.left \/ ~after.ok THEN after
        ELSE deleteColumnFrom(after, Refresh(rect, after), i - 1)
  IN  Rest(removeColumn(tr, rect, i))

deleteColumn(st, dispatch) ==
  LET With(rect) ==
        IF rect.left = 0 /\ rect.right = rect.map.width
          THEN Refused(st)
          ELSE Dispatched(st, deleteColumnFrom(NewTr(st), rect,
                                               rect.right - 1))
  IN  IF ~isInTable(st) THEN Refused(st)
      ELSE IF dispatch THEN With(selectedRect(st))
      ELSE Applicable(st)

(***************************************************************************)
(* Rows.                                                                   *)
(***************************************************************************)
(* addRow's in-place update of map.sectionRows.                            *)
RECURSIVE bumpSectionRows(_, _, _, _)
bumpSectionRows(srows, row, s, acc) ==
  IF s > Len(srows) THEN srows
  ELSE IF row < acc + srows[s] \/ s = Len(srows)
    THEN [srows EXCEPT ![s] = @ + 1]
  ELSE bumpSectionRows(srows, row, s + 1, acc + srows[s])

RECURSIVE addRowCols(_, _, _, _, _, _, _)
addRowCols(tr, rect, row, plain, refRow, col, cells) ==
  LET map == rect.map
      index == map.width * row + col
  IN  IF col >= map.width THEN [tr |-> tr, cells |-> cells]
      ELSE IF /\ row > 0 /\ row < map.height
              /\ MapAt(map, index) = MapAt(map, index - map.width)
        THEN LET pos == MapAt(map, index)
                 attrs == nodeAt(rect.table, pos)
             IN  IF attrs = NoCell
                   THEN [tr |-> Fail(tr), cells |-> cells]
                   ELSE addRowCols(
                          TrSetNodeMarkup(tr, rect.tableStart + pos, "",
                                          [attrs EXCEPT !.rowspan = @ + 1]),
                          rect, row, plain, refRow, col + attrs.colspan,
                          cells)
        ELSE LET type == IF plain THEN "cell"
                         ELSE nodeAt(rect.table,
                                     MapAt(map, index + refRow * map.width)
                                    ).type
             IN  addRowCols(tr, rect, row, plain, refRow, col + 1,
                            IF type = "none" THEN cells
                            ELSE Append(cells, createAndFill(type)))

addRow(tr, rect, row) ==
  LET Insert(done, rPos0) ==
        TrInsertRow(done.tr,
                    IF /\ rect.bottom = row
                       /\ isRowLastInSection(rect.table, row - 1)
                      THEN rPos0 - 2 ELSE rPos0,
                    done.cells)
      Cells(refRow, header) ==
        Insert(addRowCols(tr, rect, row,
                          header /\ (row = 0 \/ row = rect.map.height),
                          IF header THEN 0 ELSE refRow, 0, <<>>),
               rowPos(rect.table, row) + rect.tableStart)
      Ref(refRow) ==
        Cells(refRow, rowIsHeader(rect.map, rect.table, row + refRow))
  IN  Ref(IF row > 0 THEN -1 ELSE 0)

addRowBefore(st, dispatch) ==
  LET With(rect) ==
        [Dispatched(st, addRow(NewTr(st), rect, rect.top)) EXCEPT
           !.sectionRows = bumpSectionRows(@, rect.top, 1, 0)]
  IN  IF ~isInTable(st) THEN Refused(st)
      ELSE IF dispatch THEN With(selectedRect(st))
      ELSE Applicable(st)

addRowAfter(st, dispatch) ==
  LET With(rect) ==
        [Dispatched(st, addRow(NewTr(st), rect, rect.bottom)) EXCEPT
           !.sectionRows = bumpSectionRows(@, rect.bottom, 1, 0)]
  IN  IF ~isInTable(st) THEN Refused(st)
      ELSE IF dispatch THEN With(selectedRect(st))
      ELSE Applicable(st)

RECURSIVE removeRowCols(_, _, _, _, _)
removeRowCols(tr, rect, row, mapFrom, col) ==
  LET map == rect.map
      index == row * map.width + col
      pos == MapAt(map, index)
      cell == nodeAt(rect.table, pos)
  IN  IF col >= map.width \/ ~tr.ok THEN tr
      ELSE IF row > 0 /\ pos = MapAt(map, index - map.width)
        THEN IF cell = NoCell THEN Fail(tr) ELSE
             removeRowCols(
               TrSetNodeMarkup(tr,
                               MapPosSlice(tr, mapFrom, pos + rect.tableStart),
                               "", [cell EXCEPT !.rowspan = @ - 1]),
               rect, row, mapFrom, col + cell.colspan)
      ELSE IF row < map.height /\ pos = MapAt(map, index + map.width)
        THEN IF cell = NoCell THEN Fail(tr) ELSE
             LET copy == [cell EXCEPT !.rowspan = @ - 1]
                 newPos == positionAt(map, row + 1, col, rect.table)
             IN  removeRowCols(
                   TrInsertCell(tr,
                                MapPosSlice(tr, mapFrom,
                                            rect.tableStart + newPos),
                                copy),
                   rect, row, mapFrom, col + cell.colspan)
      ELSE removeRowCols(tr, rect, row, mapFrom, col + 1)

removeRow(tr, rect, row) ==
  LET From(got, from) ==
        IF ~got.node.found THEN Fail(tr)
        ELSE removeRowCols(
               TrDelete(tr, from,
                        from + RowSize(RowOf(rect.table, got.node)) - 1),
               rect, row, Len(tr.maps), 0)
      Row(got) == From(got, got.pos + rect.tableStart)
  IN  Row(getRow(rect.table, row))

RECURSIVE removeSectionFrom(_, _, _, _, _, _)
removeSectionFrom(tr, rect, section, i, pos, s) ==
  IF i > Len(rect.table) THEN tr
  ELSE LET child == rect.table[i]
           s1 == IF isTableSection(child) THEN s + 1 ELSE s
       IN  IF isTableSection(child) /\ s1 = section
             THEN TrDelete(tr, rect.tableStart + pos,
                           rect.tableStart + pos + ChildSize(child))
             ELSE removeSectionFrom(tr, rect, section, i + 1,
                                    pos + ChildSize(child), s1)

(* removeSection that removes the first section whatever the index.       *)
removeSectionFirst(tr, rect, section) ==
  removeSectionFrom(tr, rect, 0, 1, 0, -1)

removeSection(tr, rect, section) ==
  removeSectionFrom(tr, rect, section, 1, 0, -1)

(* sectionBottom[s] of deleteRow, s from 0.                                *)
SectionBottom(sectionRows, s) == SeqSum(SubSeq(sectionRows, 1, s + 1))

RECURSIVE deleteRowStart(_, _, _)
deleteRowStart(sectionRows, bottom, s) ==
  IF s > 0 /\ SectionBottom(sectionRows, s) > bottom
    THEN deleteRowStart(sectionRows, bottom, s - 1) ELSE s

RECURSIVE deleteRowFrom(_, _, _, _, _)
deleteRowFrom(tr, rect, sectionRows, i, s) ==
  LET Rest(after, i1, s1) ==
        IF i1 <= rect.top \/ ~after.ok THEN after
        ELSE deleteRowFrom(after, Refresh(rect, after), sectionRows,
                           i1 - 1, s1)
      Step(firstRowOfSection, whole) ==
        Rest(IF whole THEN removeSection(tr, rect, s)
             ELSE removeRow(tr, rect, i),
             IF whole THEN firstRowOfSection ELSE i,
             IF whole THEN s - 1 ELSE s)
      In(firstRowOfSection) ==
        Step(firstRowOfSection,
             /\ i + 1 = SectionBottom(sectionRows, s)
             /\ rect.top <= firstRowOfSection)
  IN  IF s < 0 \/ s >= Len(sectionRows) THEN Fail(tr)
      ELSE In(SectionBottom(sectionRows, s) - sectionRows[s + 1])

deleteRow(st, dispatch) ==
  LET From(rect, sectionRows) ==
        IF rect.top = 0 /\ rect.bottom = rect.map.height
          THEN Refused(st)
          ELSE Dispatched(st,
                 deleteRowFrom(NewTr(st), rect, sectionRows,
                               rect.bottom - 1,
                               deleteRowStart(sectionRows, rect.bottom,
                                              Len(sectionRows) - 1)))
      With(rect) == From(rect, rect.map.sectionRows)
  IN  IF ~isInTable(st) THEN Refused(st)
      ELSE IF dispatch THEN With(selectedRect(st))
      ELSE Applicable(st)

(***************************************************************************)
(* Caption and sections.                                                   *)
(***************************************************************************)
EmptyCaptionSize == 2

addCaption(st, dispatch) ==
  IF tableDepth(st) < 0 THEN Refused(st)
  ELSE IF tableHasCaption(st.table) THEN Refused(st)
  ELSE IF dispatch
    THEN Dispatched(st, TrInsertChild(NewTr(st), TableStart,
                                      MkCaption(EmptyCaptionSize)))
  ELSE Applicable(st)

deleteCaption(st, dispatch) ==
  IF tableDepth(st) < 0 THEN Refused(st)
  ELSE IF ~tableHasCaption(st.table) THEN Refused(st)
  ELSE IF dispatch
    THEN Dispatched(st, TrDelete(NewTr(st), TableStart,
                                 TableStart + ChildSize(st.table[1])))
  ELSE Applicable(st)

createSection(role, width, cellRole) ==
  [role |-> role,
   rows |-> <<[i \in 1..width |-> createAndFill(cellRole)]>>,
   size |-> 0]

addTableHead(st, dispatch) ==
  IF tableDepth(st) < 0 THEN Refused(st)
  ELSE IF tableHasHead(st.table) THEN Refused(st)
  ELSE IF dispatch
    THEN LET pos == TableStart
                      + (IF Len(st.table) > 0 /\ st.table[1].role = "caption"
                           THEN ChildSize(st.table[1]) ELSE 0)
             map == TableMapGet(st.table)
         IN  Dispatched(st, TrInsertChild(NewTr(st), pos,
                              createSection("head", map.width,
                                            "header_cell")))
  ELSE Applicable(st)

addTableFoot(st, dispatch) ==
  IF tableDepth(st) < 0 THEN Refused(st)
  ELSE IF tableHasFoot(st.table) THEN Refused(st)
  ELSE IF dispatch
    THEN LET pos == TableStart + TableContentSize(st.table)
             map == TableMapGet(st.table)
         IN  Dispatched(st, TrInsertChild(NewTr(st), pos,
                              createSection("foot", map.width,
                                            "header_cell")))
  ELSE Applicable(st)

RECURSIVE addBodyBeforePos(_, _, _, _, _)
addBodyBeforePos(table, firstSection, i, pos, s) ==
  IF i > Len(table) THEN pos
  ELSE LET s1 == IF table[i].role # "caption" THEN s + 1 ELSE s
       IN  IF s1 = firstSection THEN pos
           ELSE addBodyBeforePos(table, firstSection, i + 1,
                                 pos + ChildSize(table[i]), s1)

(* addBodyBefore without the test for the head section.                   *)
addBodyBeforeAnySection(st, dispatch) ==
  LET In(rect, sections) ==
        IF sections = <<>> THEN Refused(st)
        ELSE IF dispatch
          THEN Dispatched(st,
                 TrInsertChild(NewTr(st),
                               addBodyBeforePos(rect.table, sections[1],
                                                1, rect.tableStart, -1),
                               createSection("body", rect.map.width,
                                             "cell")))
        ELSE Applicable(st)
      With(rect) == In(rect, sectionsInRect(rect.map, rect))
  IN  IF ~isInTable(st) THEN Refused(st) ELSE With(selectedRect(st))

addBodyBefore(st, dispatch) ==
  LET In(rect, sections) ==
        IF sections = <<>> \/ (sections[1] = 0 /\ tableHasHead(rect.table))
          THEN Refused(st)
        ELSE IF dispatch
          THEN Dispatched(st,
                 TrInsertChild(NewTr(st),
                               addBodyBeforePos(rect.table, sections[1],
                                                1, rect.tableStart, -1),
                               createSection("body", rect.map.width,
                                             "cell")))
        ELSE Applicable(st)
      With(rect) == In(rect, sectionsInRect(rect.map, rect))
  IN  IF ~isInTable(st) THEN Refused(st) ELSE With(selectedRect(st))

RECURSIVE addBodyAfterPos(_, _, _, _, _)
addBodyAfterPos(table, lastSection, i, pos, s) ==
  IF i > Len(table) THEN pos
  ELSE LET s1 == IF table[i].role # "caption" THEN s + 1 ELSE s
       IN  IF s1 = lastSection THEN pos + ChildSize(table[i])
           ELSE addBodyAfterPos(table, lastSection, i + 1,
                                pos + ChildSize(table[i]), s1)

addBodyAfter(st, dispatch) ==
  LET In(rect, lastSection) ==
        IF /\ lastSection = Len(rect.map.sectionRows) - 1
           /\ tableHasFoot(rect.table)
          THEN Refused(st)
        ELSE IF dispatch
          THEN Dispatched(st,
                 TrInsertChild(NewTr(st),
                               addBodyAfterPos(rect.table, lastSection, 1,
                                               rect.tableStart - 1, -1),
                               createSection("body", rect.map.width,
                                             "cell")))
        ELSE Applicable(st)
      Last(sections) ==
        IF sections = <<>> THEN -2 ELSE sections[Len(sections)]
      With(rect) == In(rect, Last(sectionsInRect(rect.map, rect)))
  IN  IF ~isInTable(st) THEN Refused(st) ELSE With(selectedRect(st))

(* fixRowCells that leaves the cells their types.                          *)
fixRowCellsNone(row, headerCellType) == row

fixRowCells(row, headerCellType) ==
  [i \in 1..Len(row) |->
     IF row[i].type = "header_cell" THEN row[i]
     ELSE [row[i] EXCEPT !.type = headerCellType]]

(* A copy of a section that is always a body.                              *)
SectionCopyAsBody(section, rows) ==
  [section EXCEPT !.rows = rows, !.role = "body"]

SectionCopy(section, rows) == [section EXCEPT !.rows = rows]

(* One round of makeSection's loop over the rows of an overlapping section. *)
(* ms = [out, ref, acc, inSel]: newTableContents, refSection,              *)
(* accSectionRows, inSelection.                                            *)
RECURSIVE makeSectionRows(_, _, _, _, _, _, _)
makeSectionRows(ms, section, rowIndex, j, role, top, bottom) ==
  IF j > Len(section.rows) THEN ms
  ELSE
    LET atTop == rowIndex + (j - 1) = top
        flush == atTop /\ Len(ms.acc) > 0
        out1 == IF flush THEN Append(ms.out, SectionCopy(ms.ref, ms.acc))
                ELSE ms.out
        acc1 == IF flush THEN <<>> ELSE ms.acc
        inSel1 == ms.inSel \/ atTop
        row == IF inSel1 /\ role \in {"head", "foot"}
                 THEN fixRowCells(section.rows[j], "header_cell")
                 ELSE section.rows[j]
        acc2 == Append(acc1, row)
        atBottom == rowIndex + (j - 1) = bottom - 1
        ref2 == IF ms.ref.role # role THEN section ELSE ms.ref
        newSection == IF ref2.role # role
                        THEN [role |-> role, rows |-> acc2, size |-> 0]
                        ELSE SectionCopy(ref2, acc2)
    IN  makeSectionRows(
          IF atBottom
            THEN [out |-> Append(out1, newSection), ref |-> section,
                  acc |-> <<>>, inSel |-> FALSE]
            ELSE [out |-> out1, ref |-> ms.ref, acc |-> acc2,
                  inSel |-> inSel1],
          section, rowIndex, j + 1, role, top, bottom)

NoSection == [role |-> "", rows |-> <<>>, size |-> 0]

(* makeSection's loop over the children of the table; refused is set when  *)
(* the loop meets the section that is exactly the selection and already    *)
(* has the role.                                                           *)
RECURSIVE makeSectionChildren(_, _, _, _, _, _, _)
makeSectionChildren(ms, table, i, rowIndex, role, top, bottom) ==
  IF i > Len(table) THEN [refused |-> FALSE, out |-> ms.out]
  ELSE
    LET section == table[i]
        lastRow == rowIndex + Len(section.rows) - 1
    IN  IF ~isTableSection(section)
          THEN makeSectionChildren([ms EXCEPT !.out = Append(@, section)],
                                   table, i + 1, rowIndex, role, top, bottom)
        ELSE IF rowIndex = top /\ lastRow + 1 = bottom /\ section.role = role
          THEN [refused |-> TRUE, out |-> ms.out]
        ELSE IF rowIndex >= bottom \/ lastRow < top
          THEN makeSectionChildren([ms EXCEPT !.out = Append(@, section)],
                                   table, i + 1, lastRow + 1, role, top,
                                   bottom)
        ELSE
          LET ms1 == IF ms.ref = NoSection THEN [ms EXCEPT !.ref = section]
                     ELSE ms
              ms2 == makeSectionRows(ms1, section, rowIndex, 1, role, top,
                                     bottom)
              ms3 == IF ~ms2.inSel /\ Len(ms2.acc) > 0
                       THEN [ms2 EXCEPT
                               !.out = Append(@, SectionCopy(ms2.ref,
                                                             ms2.acc)),
                               !.acc = <<>>]
                       ELSE ms2
          IN  makeSectionChildren(ms3, table, i + 1, lastRow + 1, role, top,
                                  bottom)

makeSection(role, st, dispatch) ==
  LET Select(rect, tr1, cellsPositions) ==
        IF cellsPositions = <<>>
             \/ \E k \in 1..Len(cellsPositions) : cellsPositions[k] < 0
          THEN Dispatched(st, Fail(tr1))
        ELSE Dispatched(st,
               TrSetSelection(tr1,
                 CellSel(rect.tableStart + cellsPositions[1],
                         rect.tableStart
                           + cellsPositions[Len(cellsPositions)])))
      Replace(rect, newTable) ==
        Select(rect, TrReplaceTable(NewTr(st), newTable),
               cellsInRect(TableMapGet(newTable), rect))
      Done(rect, done) ==
        IF done.refused THEN Refused(st) ELSE Replace(rect, done.out)
      With(rect) ==
        IF role = "head" /\ rect.top > 0 THEN Refused(st)
        ELSE IF role = "foot" /\ rect.bottom < rect.map.height
          THEN Refused(st)
        ELSE IF dispatch
          THEN Done(rect,
                    makeSectionChildren(
                      [out |-> <<>>, ref |-> NoSection, acc |-> <<>>,
                       inSel |-> FALSE],
                      rect.table, 1, 0, role, rect.top, rect.bottom))
        ELSE Applicable(st)
  IN  IF ~isInTable(st) THEN Refused(st) ELSE With(selectedRect(st))

makeBody(st, dispatch) == makeSection("body", st, dispatch)

makeHead(st, dispatch) == makeSection("head", st, dispatch)

makeFoot(st, dispatch) == makeSection("foot", st, dispatch)

RECURSIVE deleteSections(_, _, _, _)
deleteSections(tr, table, sections, i) ==
  IF i < 1 THEN tr
  ELSE LET firstSectionIndex == IF tableHasCaption(table) THEN 1 ELSE 0
           ci == sections[i] + firstSectionIndex + 1
       IN  IF ci > Len(table) THEN Fail(tr)
           ELSE deleteSections(
                  TrDelete(tr, TableStart + ChildStart(table, ci),
                           TableStart + ChildStart(table, ci)
                             + ChildSize(table[ci])),
                  table, sections, i - 1)

deleteSection(st, dispatch) ==
  LET In(rect, sections) ==
        IF rect.top = 0 /\ rect.bottom = rect.map.height THEN Refused(st)
        ELSE IF dispatch
          THEN IF Len(sections) >= tableSectionsCount(rect.table)
                    \/ Len(sections) = 0
                 THEN Refused(st)
                 ELSE Dispatched(st, deleteSections(NewTr(st), rect.table,
                                                    sections, Len(sections)))
        ELSE Applicable(st)
      With(rect) == In(rect, sectionsInRect(rect.map, rect))
  IN  IF ~isInTable(st) THEN Refused(st) ELSE With(selectedRect(st))

(***************************************************************************)
(* Merging and splitting cells.                                            *)
(***************************************************************************)
(* isEmpty that takes no cell for empty.                                   *)
isEmptyNever(cell) == FALSE

isEmpty(cell) == cell.content = <<0>>

(* cellsOverlapRectangle looking at the left and right edges only.        *)
cellsOverlapLeftRight(map, rect) ==
  \E i \in rect.top..(rect.bottom - 1) :
    LET indexLeft == i * map.width + rect.left
        indexRight == i * map.width + rect.right - 1
    IN  \/ rect.left > 0 /\ MapAt(map, indexLeft) = MapAt(map, indexLeft - 1)
        \/ /\ rect.right < map.width
           /\ MapAt(map, indexRight) = MapAt(map, indexRight + 1)

cellsOverlapRectangle(map, rect) ==
  LET width == map.width
      height == map.height
  IN  \/ \E i \in rect.top..(rect.bottom - 1) :
           LET indexLeft == i * width + rect.left
               indexRight == i * width + rect.right - 1
           IN  \/ rect.left > 0 /\ MapAt(map, indexLeft) = MapAt(map, indexLeft - 1)
               \/ /\ rect.right < width
                  /\ MapAt(map, indexRight) = MapAt(map, indexRight + 1)
      \/ \E i \in rect.left..(rect.right - 1) :
           LET indexTop == rect.top * width + i
               indexBottom == (rect.bottom - 1) * width + i
           IN  \/ rect.top > 0 /\ MapAt(map, indexTop) = MapAt(map, indexTop - width)
               \/ /\ rect.bottom < height
                  /\ MapAt(map, indexBottom) = MapAt(map, indexBottom + width)

(* mergeCells' loop over the slots of the rectangle, row by row.           *)
(* mg = [tr, seen, content, mergedPos]; mergedPos is -1 while unset.       *)
RECURSIVE mergeCellsLoop(_, _, _, _)
mergeCellsLoop(mg, rect, row, col) ==
  IF row >= rect.bottom THEN mg
  ELSE IF col >= rect.right THEN mergeCellsLoop(mg, rect, row + 1, rect.left)
  ELSE
    LET cellPos == MapAt(rect.map, row * rect.map.width + col)
        cell == nodeAt(rect.table, cellPos)
    IN  IF cellPos \in mg.seen \/ cell = NoCell
          THEN mergeCellsLoop(mg, rect, row, col + 1)
        ELSE IF mg.mergedPos < 0
          THEN mergeCellsLoop([mg EXCEPT !.seen = @ \cup {cellPos},
                                         !.mergedPos = cellPos],
                              rect, row, col + 1)
        ELSE
          LET mapped == MapPos(mg.tr, cellPos + rect.tableStart)
          IN  mergeCellsLoop(
                [mg EXCEPT
                   !.seen = @ \cup {cellPos},
                   !.content = IF isEmpty(cell) THEN @ ELSE @ \o cell.content,
                   !.tr = TrDelete(@, mapped, mapped + CellSize(cell))],
                rect, row, col + 1)

mergeCells(st, dispatch) ==
  LET Fill(rect, mg, mergedCell, tr1, end) ==
        IF ContentSize(mg.content) > 0
          THEN TrReplaceInCell(
                 tr1,
                 (IF isEmpty(mergedCell) THEN mg.mergedPos + 1 ELSE end)
                   + rect.tableStart,
                 end + rect.tableStart, mg.content)
          ELSE tr1
      Span(rect, mg, mergedCell) ==
        Fill(rect, mg, mergedCell,
             TrSetNodeMarkup(
               mg.tr, mg.mergedPos + rect.tableStart, "",
               [addColSpan(mergedCell, mergedCell.colspan,
                           rect.right - rect.left - mergedCell.colspan)
                  EXCEPT !.rowspan = rect.bottom - rect.top]),
             mg.mergedPos + 1 + ContentSize(mergedCell.content))
      Merged(rect, mg) ==
        IF mg.mergedPos < 0 THEN Applicable(st)
        ELSE Dispatched(st,
               TrSetSelection(Span(rect, mg,
                                   nodeAt(rect.table, mg.mergedPos)),
                 CellSel(mg.mergedPos + rect.tableStart,
                         mg.mergedPos + rect.tableStart)))
      With(rect) ==
        IF ~rectOverOneSection(rect.map, rect) THEN Refused(st)
        ELSE IF cellsOverlapRectangle(rect.map, rect) THEN Refused(st)
        ELSE IF dispatch
          THEN Merged(rect,
                      mergeCellsLoop([tr |-> NewTr(st), seen |-> {},
                                      content |-> <<>>, mergedPos |-> -1],
                                     rect, rect.top, rect.left))
        ELSE Applicable(st)
  IN  IF st.sel.kind # "cell" \/ st.sel.anchor = st.sel.head
        THEN Refused(st)
        ELSE With(selectedRect(st))

(***************************************************************************)
(* The getCellType callbacks a caller may pass to splitCellWithType, as    *)
(* data: "same" is splitCell's (the type of the split cell), "cell" and    *)
(* "header_cell" are constant, "checker" alternates over the grid, and     *)
(* "grid" looks the slot up in a table of types, row by row.               *)
(***************************************************************************)
Chooser(kind) == [kind |-> kind, width |-> 0, types |-> <<>>]

GridChooser(width, types) ==
  [kind |-> "grid", width |-> width, types |-> types]

getCellType(chooser, node, row, col) ==
  CASE chooser.kind = "same" -> node.type
    [] chooser.kind = "cell" -> "cell"
    [] chooser.kind = "header_cell" -> "header_cell"
    [] chooser.kind = "checker" ->
         IF (row + col) % 2 = 0 THEN "header_cell" ELSE "cell"
    [] OTHER -> chooser.types[row * chooser.width + col + 1]

(* splitAttrs that leaves the cell its rowspan.                            *)
splitAttrsKeepRowspan(cellNode, i) ==
  [cellNode EXCEPT !.colspan = 1,
                   !.colwidth = IF cellNode.colwidth # NoWidths
                                     /\ i + 1 <= Len(cellNode.colwidth)
                                     /\ cellNode.colwidth[i + 1] # 0
                                  THEN <<cellNode.colwidth[i + 1]>>
                                  ELSE NoWidths]

(* splitAttrs that hands the whole colwidth of the cell to every column.   *)
splitAttrsWholeWidth(cellNode, i) ==
  [cellNode EXCEPT !.rowspan = 1, !.colspan = 1]

(* The attributes of the i-th (from 0) cell of each row of the split.      *)
splitAttrs(cellNode, i) ==
  LET baseAttrs == [cellNode EXCEPT !.rowspan = 1, !.colspan = 1]
      colwidth == cellNode.colwidth
  IN  IF colwidth # NoWidths
        THEN [baseAttrs EXCEPT
                !.colwidth = IF i + 1 <= Len(colwidth) /\ colwidth[i + 1] # 0
                               THEN <<colwidth[i + 1]>> ELSE NoWidths]
        ELSE baseAttrs

(* splitCellWithType's loops.  sp = [tr, lastCell]; lastCell is -1 while   *)
(* no cell has been inserted.                                              *)
RECURSIVE splitCellLoop(_, _, _, _, _, _)
splitCellLoop(sp, rect, cellNode, chooser, row, col) ==
  LET Insert(lastCell) ==
        [tr |-> TrInsertCell(
                  sp.tr, lastCell,
                  [splitAttrs(cellNode, col - rect.left) EXCEPT
                     !.type = getCellType(chooser, cellNode, row, col),
                     !.content = <<0>>]),
         lastCell |-> lastCell]
      At(pos) == Insert(MapPos(sp.tr, pos + rect.tableStart))
  IN  IF row >= rect.bottom THEN sp
      ELSE IF col >= rect.right
        THEN splitCellLoop(sp, rect, cellNode, chooser, row + 1, rect.left)
      ELSE IF col = rect.left /\ row = rect.top
        THEN splitCellLoop(sp, rect, cellNode, chooser, row, col + 1)
      ELSE splitCellLoop(
             At(positionAt(rect.map, row, rect.left, rect.table)
                  + (IF row = rect.top THEN CellSize(cellNode) ELSE 0)),
             rect, cellNode, chooser, row, col + 1)

splitCellWithType(chooser, st, dispatch) ==
  LET Select(sp, tr1) ==
        IF st.sel.kind = "cell"
          THEN Dispatched(st,
                 TrSetSelection(tr1,
                   CellSel(st.sel.anchor,
                           IF sp.lastCell >= 0 THEN sp.lastCell
                           ELSE st.sel.anchor)))
          ELSE Dispatched(st, tr1)
      Split(cellNode, rect, sp) ==
        Select(sp,
               TrSetNodeMarkup(
                 sp.tr, st.sel.anchor,
                 getCellType(chooser, cellNode, rect.top, rect.left),
                 splitAttrs(cellNode, 0)))
      With(cellNode, rect) ==
        Split(cellNode, rect,
              splitCellLoop([tr |-> NewTr(st), lastCell |-> -1],
                            rect, cellNode, chooser, rect.top, rect.left))
      Of(cellNode) ==
        IF cellNode = NoCell THEN Refused(st)
        ELSE IF cellNode.colspan = 1 /\ cellNode.rowspan = 1
          THEN Refused(st)
        ELSE IF dispatch THEN With(cellNode, selectedRect(st))
        ELSE Applicable(st)
  IN  IF st.sel.kind = "none" THEN Refused(st)
      ELSE IF st.sel.kind = "cell" /\ st.sel.anchor # st.sel.head
        THEN Refused(st)
      ELSE Of(nodeAt(st.table, st.sel.anchor - TableStart))

splitCell(st, dispatch) == splitCellWithType(Chooser("same"), st, dispatch)

(***************************************************************************)
(* Cell attributes and header toggles.                                     *)
(***************************************************************************)
RECURSIVE setCellAttrCells(_, _, _, _, _)
setCellAttrCells(tr, st, cells, i, value) ==
  LET Set(node) ==
        IF node.bg # value
          THEN TrSetNodeMarkup(tr, TableStart + cells[i], "",
                               [node EXCEPT !.bg = value])
          ELSE tr
  IN  IF i > Len(cells) THEN tr
      ELSE setCellAttrCells(Set(nodeAt(st.table, cells[i])), st, cells,
                            i + 1, value)

(* setCellAttr('background', value)                                        *)
setCellAttr(value, st, dispatch) ==
  LET Cells(rect) ==
        Dispatched(st, setCellAttrCells(NewTr(st), st,
                                        cellsInRect(rect.map, rect), 1,
                                        value))
      Of(cell, node) ==
        IF node.bg = value THEN Refused(st)
        ELSE IF dispatch
          THEN IF st.sel.kind = "cell" THEN Cells(selectedRect(st))
               ELSE Dispatched(st,
                      TrSetNodeMarkup(NewTr(st), cell, "",
                                      [node EXCEPT !.bg = value]))
        ELSE Applicable(st)
      At(cell) == Of(cell, nodeAt(st.table, cell - TableStart))
  IN  IF ~isInTable(st) THEN Refused(st) ELSE At(selectionCell(st))

(* SetTypes that retypes every cell, header cell or not.                    *)
RECURSIVE SetTypesAll(_, _, _, _, _, _)
SetTypesAll(tr, table, cells, i, type, onlyHeaders) ==
  LET Set(node) ==
        IF node = NoCell THEN tr
        ELSE TrSetNodeMarkup(tr, TableStart + cells[i], type, node)
  IN  IF i > Len(cells) THEN tr
      ELSE SetTypesAll(Set(nodeAt(table, cells[i])), table, cells, i + 1,
                       type, onlyHeaders)

RECURSIVE SetTypes(_, _, _, _, _, _)
SetTypes(tr, table, cells, i, type, onlyHeaders) ==
  LET Set(node) ==
        IF node = NoCell \/ (onlyHeaders /\ node.type # "header_cell")
          THEN tr
          ELSE TrSetNodeMarkup(tr, TableStart + cells[i], type, node)
  IN  IF i > Len(cells) THEN tr
      ELSE SetTypes(Set(nodeAt(table, cells[i])), table, cells, i + 1, type,
                    onlyHeaders)

deprecated_toggleHeader(type, st, dispatch) ==
  LET Toggle(rect, cells, tr1) ==
        Dispatched(st,
          IF Len(tr1.maps) = 0
            THEN SetTypes(tr1, rect.table, cells, 1, "header_cell", FALSE)
            ELSE tr1)
      Clear(rect, cells) ==
        Toggle(rect, cells,
               SetTypes(NewTr(st), rect.table, cells, 1, "cell", TRUE))
      With(rect) ==
        Clear(rect,
              cellsInRect(rect.map,
                IF type = "column"
                  THEN [left |-> rect.left, top |-> 0,
                        right |-> rect.right, bottom |-> rect.map.height]
                ELSE IF type = "row"
                  THEN [left |-> 0, top |-> rect.top,
                        right |-> rect.map.width, bottom |-> rect.bottom]
                ELSE [left |-> rect.left, top |-> rect.top,
                      right |-> rect.right, bottom |-> rect.bottom]))
  IN  IF ~isInTable(st) THEN Refused(st)
      ELSE IF dispatch THEN With(selectedRect(st))
      ELSE Applicable(st)

(* isHeaderEnabledByType that never finds a header row or column.          *)
isHeaderEnabledNever(type, rect) == FALSE

isHeaderEnabledByType(type, rect) ==
  LET IsHeader(cell) == cell = NoCell \/ cell.type = "header_cell"
      All(cellPositions) ==
        \A i \in 1..Len(cellPositions) :
          IsHeader(nodeAt(rect.table, cellPositions[i]))
  IN  All(cellsInRect(rect.map,
                      [left |-> 0, top |-> 0,
                       right |-> IF type = "row" THEN rect.map.width ELSE 1,
                       bottom |-> IF type = "column" THEN rect.map.height
                                  ELSE 1]))

toggleHeaderCurrent(type, st, dispatch) ==
  LET Set(rect, cellsRect, newType) ==
        Dispatched(st,
          SetTypes(NewTr(st), rect.table, cellsInRect(rect.map, cellsRect),
                   1, newType, FALSE))
      From(rect, selectionStartsAt, isHeaderRowEnabled,
           isHeaderColumnEnabled) ==
        Set(rect,
            IF type = "column"
              THEN [left |-> 0, top |-> selectionStartsAt, right |-> 1,
                    bottom |-> rect.map.height]
            ELSE IF type = "row"
              THEN [left |-> selectionStartsAt, top |-> 0,
                    right |-> rect.map.width, bottom |-> 1]
            ELSE [left |-> rect.left, top |-> rect.top,
                  right |-> rect.right, bottom |-> rect.bottom],
            IF type = "column"
              THEN IF isHeaderColumnEnabled THEN "cell" ELSE "header_cell"
            ELSE IF type = "row"
              THEN IF isHeaderRowEnabled THEN "cell" ELSE "header_cell"
            ELSE "cell")
      Enabled(rect, isHeaderRowEnabled, isHeaderColumnEnabled) ==
        From(rect,
             IF (IF type = "column" THEN isHeaderRowEnabled
                 ELSE IF type = "row" THEN isHeaderColumnEnabled
                 ELSE FALSE)
               THEN 1 ELSE 0,
             isHeaderRowEnabled, isHeaderColumnEnabled)
      With(rect) ==
        Enabled(rect, isHeaderEnabledByType("row", rect),
                isHeaderEnabledByType("column", rect))
  IN  IF ~isInTable(st) THEN Refused(st)
      ELSE IF dispatch THEN With(selectedRect(st))
      ELSE Applicable(st)

toggleHeader(type, useDeprecatedLogic, st, dispatch) ==
  IF useDeprecatedLogic THEN deprecated_toggleHeader(type, st, dispatch)
  ELSE toggleHeaderCurrent(type, st, dispatch)

toggleHeaderRow(st, dispatch) == toggleHeader("row", TRUE, st, dispatch)

toggleHeaderColumn(st, dispatch) == toggleHeader("column", TRUE, st, dispatch)

toggleHeaderCell(st, dispatch) == toggleHeader("cell", TRUE, st, dispatch)

(***************************************************************************)
(* Moving between cells, deleting the table.                               *)
(***************************************************************************)
(* The node size of the last child of a child of the table, 0 when it has  *)
(* no child (a caption holds its text, a section its rows).                *)
LastChildSize(child) ==
  IF isTableSection(child)
    THEN IF Len(child.rows) = 0 THEN 0
         ELSE RowSize(child.rows[Len(child.rows)])
    ELSE child.size - 2

RECURSIVE findPrevFrom(_, _, _)
findPrevFrom(table, row, rowEnd) ==
  IF row < 0 THEN -1
  ELSE IF LastChildSize(table[row + 1]) > 0
    THEN rowEnd - 1 - LastChildSize(table[row + 1])
  ELSE findPrevFrom(table, row - 1, rowEnd - ChildSize(table[row + 1]))

RECURSIVE findNextFrom(_, _, _)
findNextFrom(table, row, rowStart) ==
  IF row >= Len(table) THEN -1
  ELSE IF LastChildSize(table[row + 1]) > 0 THEN rowStart + 1
  ELSE findNextFrom(table, row + 1, rowStart + ChildSize(table[row + 1]))

(* findNextCell($cell, dir) for the cell at document position cell; -1 is  *)
(* null.  index(-2) / indexAfter(-2) are indices into the table node.      *)
findNextCell(table, cell, dir) ==
  LET In(rp, cells, before) ==
        IF dir < 0
          THEN IF rp.ki > 1 THEN cell - CellSize(cells[rp.ki - 1])
               ELSE findPrevFrom(table, (rp.ci - 1) - 1, before)
          ELSE IF rp.ki - 1 < Len(cells) - 1
                 THEN cell + CellSize(cells[rp.ki])
               ELSE findNextFrom(table, rp.ci, before + RowSize(cells))
      At(rp) == In(rp, table[rp.ci].rows[rp.ri],
                   TableStart + RowStart(table, rp.ci, rp.ri))
  IN  At(Resolve(table, cell - TableStart))

RECURSIVE ParaAfter(_, _, _)
ParaAfter(content, i, off) ==
  IF i > Len(content) THEN FALSE
  ELSE IF off = 0 THEN TRUE
  ELSE IF off < ParaSize(content[i]) THEN content[i] # 0 /\ off = 1
  ELSE ParaAfter(content, i + 1, off - ParaSize(content[i]))

(* Whether $pos.nodeAfter exists at table-relative offset p.               *)
NodeAfter(table, p) ==
  LET At(rp) ==
        CASE rp.depth = "table" -> rp.ci <= Len(table)
          [] rp.depth = "section" -> rp.ri <= Len(table[rp.ci].rows)
          [] rp.depth = "row" -> rp.ki <= Len(table[rp.ci].rows[rp.ri])
          [] rp.depth = "cell" ->
               ParaAfter(table[rp.ci].rows[rp.ri][rp.ki].content, 1, rp.off)
          [] rp.depth = "caption" -> rp.off < table[rp.ci].size - 2
          [] OTHER -> FALSE
  IN  At(Resolve(table, p))

(* The text selection TextSelection.between leaves for a range that starts *)
(* at table-relative offset p: in the cell p is at or in, else in the      *)
(* first cell after p, else in the last cell of the table.                 *)
SelectionAt(table, p) ==
  LET In(rp, ps, after) ==
        IF ps = {} THEN NoSelection
        ELSE IF rp.depth = "cell"
          THEN TextSel(TableStart + CellStart(table, rp.ci, rp.ri, rp.ki))
        ELSE IF after # {}
          THEN TextSel(CHOOSE q \in after : \A q2 \in after : q <= q2)
        ELSE TextSel(CHOOSE q \in ps : \A q2 \in ps : q >= q2)
      Of(ps) == In(Resolve(table, p), ps, {q \in ps : q >= TableStart + p})
  IN  Of(CellPositions(table))

goToNextCell(direction, st, dispatch) ==
  LET To(cell) ==
        IF cell < 0 THEN Refused(st)
        ELSE IF dispatch
          THEN IF NodeAfter(st.table, cell - TableStart)
                 THEN Dispatched(st,
                        TrSetSelection(NewTr(st),
                                       SelectionAt(st.table,
                                                   cell - TableStart)))
                 ELSE Dispatched(st, Fail(NewTr(st)))
        ELSE Applicable(st)
  IN  IF ~isInTable(st) THEN Refused(st)
      ELSE To(findNextCell(st.table, selectionCell(st), direction))

deleteTable(st, dispatch) ==
  IF st.sel.kind = "none" THEN Refused(st)
  ELSE IF dispatch
    THEN Dispatched(st,
           [NewTr(st) EXCEPT
              !.table = <<>>,
              !.maps = <<StepMap(TableStart - 1,
                                 TableContentSize(st.table) + 2, 0)>>])
  ELSE Applicable(st)

(***************************************************************************)
(* Column widths.  A width list may hold null entries, written NullWidth.  *)
(***************************************************************************)
NullWidth == -1000

sameWidths(w1, w2) ==
  /\ Len(w1) = Len(w2)
  /\ \A i \in 1..Len(w1) : w1[i] = w2[i]

(* uw = [tr, updated]                                                      *)
RECURSIVE updateColumnWidthsLoop(_, _, _, _, _, _, _, _)
updateColumnWidthsLoop(uw, table, map, left, right, widths, r, c) ==
  LET Update(pos, cell, colwidth) ==
        [updated |-> uw.updated \cup {pos},
         tr |-> IF /\ cell # NoCell
                   /\ \/ cell.colwidth = NoWidths
                      \/ ~sameWidths(colwidth, cell.colwidth)
                  THEN TrSetNodeMarkup(uw.tr, pos, "",
                                       [cell EXCEPT !.colwidth = colwidth])
                  ELSE uw.tr]
      Slice(pos, cell, colspan) ==
        Update(pos, cell,
               SubSeq(widths, c - left + 1,
                      Min(c - left + colspan, Len(widths))))
      Of(pos, cell) ==
        Slice(pos, cell, IF cell.colspan = 0 THEN 1 ELSE cell.colspan)
      At(pos) ==
        IF pos \in uw.updated THEN uw
        ELSE Of(pos, nodeAt(table, pos - TableStart))
  IN  IF r >= map.height THEN uw
      ELSE IF c >= right
        THEN updateColumnWidthsLoop(uw, table, map, left, right, widths,
                                    r + 1, left)
      ELSE updateColumnWidthsLoop(
             At(positionAt(map, r, c, table) + TableStart),
             table, map, left, right, widths, r, c + 1)

updateColumnWidthsTransaction(st, table, left, widths, map) ==
  updateColumnWidthsLoop([tr |-> NewTr(st), updated |-> {}], table, map,
                         left, Min(left + Len(widths), map.width), widths,
                         0, left).tr

(***************************************************************************)
(* The editor view, as far as the width commands look at it:               *)
(*   present    : whether a view was passed to the command                 *)
(*   colpx      : the rendered width of every grid column, in pixels       *)
(*   tableWidth : the rendered width of the table element, 0 when the      *)
(*                table element is not found                               *)
(* The rendered width of a cell is the sum over the columns it covers.     *)
(***************************************************************************)
NoView == [present |-> FALSE, colpx |-> <<>>, tableWidth |-> 0]

RECURSIVE PxSum(_, _, _)
PxSum(colpx, from, to) ==
  IF from >= to THEN 0
  ELSE (IF from + 1 <= Len(colpx) THEN colpx[from + 1] ELSE 0)
         + PxSum(colpx, from + 1, to)

(* Math.round(parseFloat(getComputedStyle(view.nodeDOM(pos)).width))       *)
ComputedWidth(view, map, pos) ==
  LET Of(r) == PxSum(view.colpx, r.left, r.right)
  IN  Of(findCell(map, pos))

(* CellSelection.isColSelection                                            *)
isColSelection(st) ==
  LET Between(map, a, h) ==
        Min(a.top, h.top) = 0 /\ Max(a.bottom, h.bottom) = map.height
      In(map) == Between(map, findCell(map, st.sel.anchor - TableStart),
                         findCell(map, st.sel.head - TableStart))
  IN  In(TableMapGet(st.table))

(* computedWidths[i] = v for i counted from 0; assigning at the length of  *)
(* the array makes it one longer.                                          *)
SetAt(seq, i, v) ==
  IF i + 1 <= Len(seq) THEN [seq EXCEPT ![i + 1] = v] ELSE Append(seq, v)

RECURSIVE SetRun(_, _, _, _)
SetRun(seq, i, n, v) ==
  IF n = 0 THEN seq ELSE SetRun(SetAt(seq, i, v), i + 1, n - 1, v)

RECURSIVE computedWidthsLoop(_, _, _, _, _, _, _, _)
computedWidthsLoop(cw, table, map, left, right, view, row, col) ==
  LET Of(cell, colwidth) ==
        IF cell = NoCell \/ colwidth = 0
          THEN computedWidthsLoop(cw, table, map, left, right, view, row,
                                  col + 1)
        ELSE IF cell.colspan > 1
          THEN computedWidthsLoop(
                 SetRun(cw, col - left, cell.colspan,
                        0 - (colwidth \div cell.colspan)),
                 table, map, left, right, view, row, col + cell.colspan)
        ELSE computedWidthsLoop(SetAt(cw, col - left, colwidth), table, map,
                                left, right, view, row, col + 1)
      At(pos) == Of(nodeAt(table, pos), ComputedWidth(view, map, pos))
  IN  IF row >= map.height THEN cw
      ELSE IF col >= right
        THEN IF \A i \in 1..Len(cw) : cw[i] # NullWidth /\ cw[i] >= 0
               THEN cw
               ELSE computedWidthsLoop(cw, table, map, left, right, view,
                                       row + 1, left)
      ELSE At(positionAt(map, row, col, table))

setComputedStyleColumnWidths(st, dispatch, view) ==
  LET Send(tr) ==
        IF Len(tr.maps) > 0
          THEN [Applicable(st) EXCEPT !.viewCalls = 1, !.tr = tr]
          ELSE Applicable(st)
      Update(map, left, cw) ==
        Send(updateColumnWidthsTransaction(
               st, st.table, left,
               [i \in 1..Len(cw) |->
                  IF cw[i] # NullWidth /\ cw[i] < 0 THEN 0 - cw[i]
                  ELSE cw[i]],
               map))
      Columns(map, left, right) ==
        Update(map, left,
               computedWidthsLoop([i \in 1..(right - left) |-> NullWidth],
                                  st.table, map, left, right, view, 0, left))
      Range(map, cols, rect) ==
        Columns(map, IF cols THEN rect.left ELSE 0,
                IF cols THEN rect.right ELSE map.width)
      In(map) ==
        Range(map, st.sel.kind = "cell" /\ isColSelection(st),
              rectBetween(map, st.sel.anchor - TableStart,
                          st.sel.head - TableStart))
  IN  IF ~isInTable(st) THEN Refused(st)
      ELSE IF view.present /\ dispatch THEN In(TableMapGet(st.table))
      ELSE Applicable(st)

(* getComputedTableWidth(view); 0 stands for undefined.                    *)
getComputedTableWidth(view, st) ==
  IF ~view.present \/ ~isInTable(st) THEN 0 ELSE view.tableWidth

(* relwidths are given in tenths, so that Math.round(rw * tableWidth) is   *)
(* relwidths[i] * tableWidth / 10; minwidth 0 stands for no minwidth.      *)
setRelativeColumnWidths(relwidths, minwidth, st, dispatch, view) ==
  LET Send(tr) ==
        IF Len(tr.maps) > 0 THEN Dispatched(st, tr) ELSE Applicable(st)
      Widths(rounded) ==
        [i \in 1..Len(rounded) |->
           IF minwidth # 0 /\ rounded[i] < minwidth
             THEN minwidth ELSE rounded[i]]
      Of(tableWidth) ==
        IF tableWidth = 0 THEN Refused(st)
        ELSE Send(updateColumnWidthsTransaction(
                    st, st.table, 0,
                    Widths([i \in 1..Len(relwidths) |->
                              (relwidths[i] * tableWidth) \div 10]),
                    TableMapGet(st.table)))
  IN  IF ~isInTable(st) THEN Refused(st)
      ELSE IF view.present /\ dispatch
        THEN Of(getComputedTableWidth(view, st))
      ELSE Applicable(st)

(***************************************************************************)
(* The state machine.                                                      *)
(*   state : the editor state, [table, sel]; table = <<>> once the table   *)
(*           has been deleted                                              *)
(*   prev  : the editor state the last command was called on               *)
(*   first : the initial editor state                                      *)
(*   call  : the last command call, with its arguments                     *)
(*   out   : what that call gave: its return value, how often it called    *)
(*           dispatch and view.dispatch, whether it threw, the number of   *)
(*           steps of the transaction it dispatched, and the section row   *)
(*           counts of the grid map of prev.table after the call           *)
(***************************************************************************)
VARIABLES state, prev, first, call, out

vars == <<state, prev, first, call, out>>

Call(cmd, dispatch) ==
  [cmd |-> cmd, dispatch |-> dispatch, view |-> NoView,
   chooser |-> Chooser("same"), n |-> 0, rel |-> <<>>]

(* Selection.map for a transaction that sets no selection: the positions   *)
(* of the selection are mapped through the steps; a cell selection whose   *)
(* ends no longer point at cells becomes a text selection.                 *)
MapSelection(sel, tr) ==
  LET Cells(a, h) ==
        IF /\ PointsAtCell(tr.table, a - TableStart)
           /\ PointsAtCell(tr.table, h - TableStart)
          THEN CellSel(a, h)
          ELSE SelectionAt(tr.table, a - TableStart)
  IN  IF tr.table = <<>> \/ sel.kind = "none" THEN NoSelection
      ELSE IF sel.kind = "cell"
        THEN Cells(MapPos(tr, sel.anchor), MapPos(tr, sel.head))
      ELSE SelectionAt(tr.table, MapPos(tr, sel.anchor + 2) - TableStart)

(* A command that throws while it builds its transaction dispatches        *)
(* nothing and returns nothing.                                            *)
Threw(res) == res.calls + res.viewCalls > 0 /\ ~res.tr.ok

Outcome(res) ==
  [ret |-> res.ret /\ ~Threw(res),
   calls |-> IF Threw(res) THEN 0 ELSE res.calls,
   viewCalls |-> IF Threw(res) THEN 0 ELSE res.viewCalls,
   threw |-> Threw(res),
   steps |-> IF Threw(res) \/ res.calls + res.viewCalls = 0 THEN 0
             ELSE Len(res.tr.maps),
   exact |-> res.tr.exact,
   sectionRows |-> res.sectionRows]

(* EditorState.apply of the dispatched transaction.                        *)
Apply(st, res) ==
  IF Threw(res) \/ res.calls + res.viewCalls = 0 THEN st
  ELSE [table |-> res.tr.table,
        sel |-> IF res.tr.selSet THEN res.tr.sel
                ELSE MapSelection(st.sel, res.tr)]

NoOutcome ==
  [ret |-> FALSE, calls |-> 0, viewCalls |-> 0, threw |-> FALSE,
   steps |-> 0, exact |-> TRUE, sectionRows |-> <<>>]

States(tables) ==
  UNION {{[table |-> t, sel |-> s] : s \in Selections(t)} : t \in tables}

InitWith(family) ==
  /\ state \in family
  /\ prev = state
  /\ first = state
  /\ call = Call("init", FALSE)
  /\ out = NoOutcome

Fresh == call.cmd = "init"

Run(c, res) ==
  /\ call' = c
  /\ out' = Outcome(res)
  /\ prev' = state
  /\ state' = Apply(state, res)
  /\ UNCHANGED first

(***************************************************************************)
(* The arguments the commands are called with.                             *)
(***************************************************************************)
Views ==
  {NoView,
   [present |-> TRUE, colpx |-> [i \in 1..MaxW |-> 10 * i], tableWidth |-> 100],
   [present |-> TRUE, colpx |-> [i \in 1..MaxW |-> 0], tableWidth |-> 0]}

RelWidths == {<<1, 2, 3>>, <<5, 5>>}

(* The minwidth passed along with a list of relative widths: none with the *)
(* three-column list, 30 with the two-column list.                         *)
MinWidthFor(relwidths) == IF Len(relwidths) = 3 THEN 0 ELSE 30

(* The types of the cells of a table, slot by slot, row by row.            *)
TypeGrid(table) ==
  LET Of(map) == [i \in 1..(map.width * map.height) |->
                    nodeAt(table, MapAt(map, i - 1)).type]
  IN  Of(TableMapGet(table))

OriginalTypes ==
  GridChooser(TableMapGet(first.table).width, TypeGrid(first.table))

Choosers == {Chooser("cell"), Chooser("header_cell"), Chooser("checker")}

(***************************************************************************)
(* One action per command.  A command is called on the initial state; the  *)
(* split commands may also be called on the state mergeCells has left.     *)
(***************************************************************************)
AddColumnBefore ==
  /\ Fresh
  /\ \E dispatch \in BOOLEAN :
       Run(Call("addColumnBefore", dispatch), addColumnBefore(state, dispatch))

AddColumnAfter ==
  /\ Fresh
  /\ \E dispatch \in BOOLEAN :
       Run(Call("addColumnAfter", dispatch), addColumnAfter(state, dispatch))

DeleteColumn ==
  /\ Fresh
  /\ \E dispatch \in BOOLEAN :
       Run(Call("deleteColumn", dispatch), deleteColumn(state, dispatch))

AddRowBefore ==
  /\ Fresh
  /\ \E dispatch \in BOOLEAN :
       Run(Call("addRowBefore", dispatch), addRowBefore(state, dispatch))

AddRowAfter ==
  /\ Fresh
  /\ \E dispatch \in BOOLEAN :
       Run(Call("addRowAfter", dispatch), addRowAfter(state, dispatch))

DeleteRow ==
  /\ Fresh
  /\ \E dispatch \in BOOLEAN :
       Run(Call("deleteRow", dispatch), deleteRow(state, dispatch))

AddCaption ==
  /\ Fresh
  /\ \E dispatch \in BOOLEAN :
       Run(Call("addCaption", dispatch), addCaption(state, dispatch))

DeleteCaption ==
  /\ Fresh
  /\ \E dispatch \in BOOLEAN :
       Run(Call("deleteCaption", dispatch), deleteCaption(state, dispatch))

AddTableHead ==
  /\ Fresh
  /\ \E dispatch \in BOOLEAN :
       Run(Call("addTableHead", dispatch), addTableHead(state, dispatch))

AddTableFoot ==
  /\ Fresh
  /\ \E dispatch \in BOOLEAN :
       Run(Call("addTableFoot", dispatch), addTableFoot(state, dispatch))

AddBodyBefore ==
  /\ Fresh
  /\ \E dispatch \in BOOLEAN :
       Run(Call("addBodyBefore", dispatch), addBodyBefore(state, dispatch))

AddBodyAfter ==
  /\ Fresh
  /\ \E dispatch \in BOOLEAN :
       Run(Call("addBodyAfter", dispatch), addBodyAfter(state, dispatch))

MakeBody ==
  /\ Fresh
  /\ \E dispatch \in BOOLEAN :
       Run(Call("makeBody", dispatch), makeBody(state, dispatch))

MakeHead ==
  /\ Fresh
  /\ \E dispatch \in BOOLEAN :
       Run(Call("makeHead", dispatch), makeHead(state, dispatch))

MakeFoot ==
  /\ Fresh
  /\ \E dispatch \in BOOLEAN :
       Run(Call("makeFoot", dispatch), makeFoot(state, dispatch))

DeleteSection ==
  /\ Fresh
  /\ \E dispatch \in BOOLEAN :
       Run(Call("deleteSection", dispatch), deleteSection(state, dispatch))

MergeCells ==
  /\ Fresh
  /\ \E dispatch \in BOOLEAN :
       Run(Call("mergeCells", dispatch), mergeCells(state, dispatch))

AfterMerge == call.cmd = "mergeCells" /\ out.calls = 1

SplitCell ==
  /\ Fresh \/ AfterMerge
  /\ \E dispatch \in BOOLEAN :
       Run(Call("splitCell", dispatch), splitCell(state, dispatch))

ToggleHeaderRow ==
  /\ Fresh
  /\ \E dispatch \in BOOLEAN :
       Run(Call("toggleHeaderRow", dispatch), toggleHeaderRow(state, dispatch))

ToggleHeaderColumn ==
  /\ Fresh
  /\ \E dispatch \in BOOLEAN :
       Run(Call("toggleHeaderColumn", dispatch), toggleHeaderColumn(state, dispatch))

ToggleHeaderCell ==
  /\ Fresh
  /\ \E dispatch \in BOOLEAN :
       Run(Call("toggleHeaderCell", dispatch), toggleHeaderCell(state, dispatch))

DeleteTable ==
  /\ Fresh
  /\ \E dispatch \in BOOLEAN :
       Run(Call("deleteTable", dispatch), deleteTable(state, dispatch))

SplitCellWithType ==
  /\ Fresh \/ AfterMerge
  /\ \E dispatch \in BOOLEAN, chooser \in Choosers :
       Run([Call("splitCellWithType", dispatch) EXCEPT !.chooser = chooser],
           splitCellWithType(chooser, state, dispatch))

SetCellAttr ==
  /\ Fresh
  /\ \E dispatch \in BOOLEAN, value \in {0, 1} :
       Run([Call("setCellAttr", dispatch) EXCEPT !.n = value],
           setCellAttr(value, state, dispatch))

ToggleHeader ==
  /\ Fresh
  /\ \E dispatch \in BOOLEAN, type \in {"row", "column", "cell"} :
       Run([Call("toggleHeader", dispatch) EXCEPT
              !.n = CASE type = "row" -> 0 [] type = "column" -> 1
                      [] OTHER -> 2],
           toggleHeader(type, FALSE, state, dispatch))

GoToNextCell ==
  /\ Fresh
  /\ \E dispatch \in BOOLEAN, direction \in {-1, 1} :
       Run([Call("goToNextCell", dispatch) EXCEPT !.n = direction],
           goToNextCell(direction, state, dispatch))

SetComputedStyleColumnWidths ==
  /\ Fresh
  /\ \E dispatch \in BOOLEAN, view \in Views :
       Run([Call("setComputedStyleColumnWidths", dispatch) EXCEPT
              !.view = view],
           setComputedStyleColumnWidths(state, dispatch, view))

SetRelativeColumnWidths ==
  /\ Fresh
  /\ \E dispatch \in BOOLEAN, view \in Views, relwidths \in RelWidths :
       LET minwidth == MinWidthFor(relwidths)
       IN
       Run([Call("setRelativeColumnWidths", dispatch) EXCEPT
              !.view = view, !.rel = relwidths, !.n = minwidth],
           setRelativeColumnWidths(relwidths, minwidth, state, dispatch,
                                   view))

(* addColumn(tr, rect, col) called by a command of the embedding editor on *)
(* the selected rectangle, the transaction then dispatched.                *)
AddColumn ==
  /\ Fresh
  /\ isInTable(state)
  /\ \E col \in 0..MaxW :
       /\ col <= selectedRect(state).map.width
       /\ Run([Call("addColumn", TRUE) EXCEPT !.n = col],
              Dispatched(state,
                         addColumn(NewTr(state), selectedRect(state), col)))

Commands ==
  \/ AddColumnBefore
  \/ AddColumnAfter
  \/ DeleteColumn
  \/ AddRowBefore
  \/ AddRowAfter
  \/ DeleteRow
  \/ AddCaption
  \/ DeleteCaption
  \/ AddTableHead
  \/ AddTableFoot
  \/ AddBodyBefore
  \/ AddBodyAfter
  \/ MakeBody
  \/ MakeHead
  \/ MakeFoot
  \/ DeleteSection
  \/ MergeCells
  \/ SplitCell
  \/ ToggleHeaderRow
  \/ ToggleHeaderColumn
  \/ ToggleHeaderCell
  \/ DeleteTable
  \/ SplitCellWithType
  \/ SetCellAttr
  \/ ToggleHeader
  \/ GoToNextCell
  \/ SetComputedStyleColumnWidths
  \/ SetRelativeColumnWidths

(* splitCellWithType called on the cell mergeCells has just made, with a   *)
(* callback that returns the type the slot's cell had before the merge.    *)
SplitMerged ==
  /\ AfterMerge
  /\ Run([Call("splitMerged", TRUE) EXCEPT !.chooser = OriginalTypes],
         splitCellWithType(OriginalTypes, state, TRUE))

(***************************************************************************)
(* Specifications.                                                         *)
(*   Spec         : every command, on the tables of up to SmallW columns   *)
(*                  and SmallH rows, with and without a caption            *)
(*   SpecSections : the section commands, on tables of up to MaxH rows     *)
(*   SpecMerge    : mergeCells, then the split of the merged cell          *)
(*   SpecSplit    : the split commands                                     *)
(*   SpecColumn   : addColumn                                              *)
(* The last three run on tables of body sections, up to MaxW x MaxH.       *)
(***************************************************************************)
SmallTables ==
  Tables(1..SmallW, 1..SmallH, MaxSpans, {0, 3}, {"checker"}, {1}, {1})

SectionTables ==
  Tables(1..SmallW, 1..MaxH, MaxSpans, {0, 3}, {"checker"}, {1}, {1})

GridTables ==
  {t \in Tables(1..MaxW, 1..MaxH, MaxSpans, {0}, {"checker"}, {2}, {2}) :
     ~tableHasHead(t) /\ ~tableHasFoot(t)}

Init == InitWith(States(SmallTables))

Next == Commands

Spec == Init /\ [][Next]_vars

InitSections == InitWith(States(SectionTables))

NextSections ==
  \/ MakeBody
  \/ MakeHead
  \/ MakeFoot
  \/ AddTableHead
  \/ AddTableFoot
  \/ AddBodyBefore
  \/ AddBodyAfter

SpecSections == InitSections /\ [][NextSections]_vars

InitGrid == InitWith(States(GridTables))

NextMerge == MergeCells \/ SplitMerged

SpecMerge == InitGrid /\ [][NextMerge]_vars

NextSplit == SplitCell \/ SplitCellWithType

SpecSplit == InitGrid /\ [][NextSplit]_vars

NextColumn == AddColumn

(* addColumn reads the table of the rectangle only: the states it is       *)
(* called on have the cursor in a cell.                                    *)
CursorStates(tables) ==
  UNION {{[table |-> t, sel |-> TextSel(a)] : a \in CellPositions(t)}
         : t \in tables}

(* Tables of body sections with a header column, a header row or header    *)
(* cells only, and at most one spanning cell.                              *)
TypedTables ==
  {t \in Tables(1..MaxW, 1..MaxH, 1, {0}, {"hcol", "hrow", "all"}, {1}, {1}) :
     ~tableHasHead(t) /\ ~tableHasFoot(t)}

InitColumn == InitWith(CursorStates(GridTables \cup TypedTables))

SpecColumn == InitColumn /\ [][NextColumn]_vars

(* addRow(tr, rect, row) called by a command of the embedding editor on    *)
(* the selected rectangle, the transaction then dispatched.                *)
AddRow ==
  /\ Fresh
  /\ isInTable(state)
  /\ \E row \in 0..MaxH :
       /\ row <= selectedRect(state).map.height
       /\ Run([Call("addRow", TRUE) EXCEPT !.n = row],
              [Dispatched(state,
                          addRow(NewTr(state), selectedRect(state), row))
                 EXCEPT !.sectionRows = bumpSectionRows(@, row, 1, 0)])

NextAddRow == AddRow

SpecAddRow == InitColumn /\ [][NextAddRow]_vars

(* Tables of one body section, up to MaxW x SmallH or SmallW x MaxH, with  *)
(* every pattern of header cells and at most one spanning cell, for the    *)
(* header toggles.                                                         *)
HeaderPatterns == {"plain", "all", "hrow", "hcol", "hboth", "checker"}

HeaderTables ==
  {t \in Tables(1..MaxW, 1..SmallH, 1, {0}, HeaderPatterns, {1}, {1})
           \cup Tables(1..SmallW, 1..MaxH, 1, {0}, HeaderPatterns, {1}, {1}) :
     Len(t) = 1 /\ t[1].role = "body"}

InitToggle == InitWith(States(HeaderTables))

NextToggle ==
  \/ ToggleHeader
  \/ ToggleHeaderRow
  \/ ToggleHeaderColumn
  \/ ToggleHeaderCell

SpecToggle == InitToggle /\ [][NextToggle]_vars

NextNextCell == GoToNextCell

SpecNextCell == InitSections /\ [][NextNextCell]_vars

NextDeleteSection == DeleteSection

SpecDeleteSection == InitSections /\ [][NextDeleteSection]_vars

(* A call of a function of util.ts that returns the value v and leaves the *)
(* state alone.                                                            *)
Returned(c, v) ==
  /\ call' = c
  /\ out' = [ret |-> TRUE, calls |-> 0, viewCalls |-> 0, threw |-> FALSE,
             steps |-> 0, exact |-> TRUE, sectionRows |-> <<>>,
             value |-> v]
  /\ prev' = state
  /\ UNCHANGED <<state, first>>

(* getRow(table, row) for a row of the table or the row after the last.    *)
GetRow ==
  /\ Fresh
  /\ \E row \in 0..MaxH :
       /\ row <= rowsCount(state.table)
       /\ Returned([Call("getRow", FALSE) EXCEPT !.n = row],
                   getRow(state.table, row))

(* rowAtPos(table, pos) for an offset in the content of the table or the   *)
(* offset after it.                                                        *)
RowAtPos ==
  /\ Fresh
  /\ \E pos \in 0..(TableContentSize(state.table) + 1) :
       Returned([Call("rowAtPos", FALSE) EXCEPT !.n = pos],
                rowAtPos(state.table, pos))

NextRows == GetRow \/ RowAtPos

(* The functions read the table only: the states have no selection.        *)
InitRows ==
  InitWith({[table |-> t, sel |-> NoSelection] : t \in SectionTables})

SpecRows == InitRows /\ [][NextRows]_vars

(* The width vectors handed to updateColumnWidthsTransaction: the widths   *)
(* the cells of the tables with widths have, or others, for the first      *)
(* columns of the table.                                                   *)
WidthVectors ==
  UNION {{[i \in 1..n |-> 10 * i], [i \in 1..n |-> 10 * i + 5]}
         : n \in 1..MaxW}

(* updateColumnWidthsTransaction(state, table, tableStart, 0, widths) as   *)
(* setRelativeColumnWidths calls it, with the widths it has computed; the  *)
(* transaction is dispatched when it has a step.                           *)
UpdateColumnWidths ==
  /\ Fresh
  /\ isInTable(state)
  /\ \E widths \in WidthVectors :
       LET Send(tr) ==
             IF Len(tr.maps) > 0 THEN Dispatched(state, tr)
             ELSE Applicable(state)
       IN  Run([Call("updateColumnWidths", TRUE) EXCEPT !.rel = widths],
               Send(updateColumnWidthsTransaction(
                      state, state.table, 0, widths,
                      TableMapGet(state.table))))

NextWidths == UpdateColumnWidths

SpecWidths == InitColumn /\ [][NextWidths]_vars

(* deleteRow, on the tables of up to SmallW columns and MaxH rows in any   *)
(* sections.                                                               *)
NextDeleteRow == DeleteRow

SpecDeleteRow == InitSections /\ [][NextDeleteRow]_vars

(* deleteColumn, on the tables of body sections.                           *)
NextDeleteColumn == DeleteColumn

SpecDeleteColumn == InitGrid /\ [][NextDeleteColumn]_vars

(* The row commands, on the tables of up to SmallW columns and MaxH rows   *)
(* in any sections.                                                        *)
NextRow == AddRowBefore \/ AddRowAfter

SpecRow == InitSections /\ [][NextRow]_vars

(***************************************************************************)
(* Properties.  Every property speaks of the last command call: prev is    *)
(* the state it was called on, call its arguments, out what it gave and    *)
(* state the editor state after it.                                        *)
(***************************************************************************)
Called(cmd) == call.cmd = cmd

(* The selected rectangle of the state the last command was called on.     *)
PrevRect == selectedRect(prev)

(* C1: deleteRow called on a selection whose rectangle covers every row    *)
(* (top = 0, bottom = map.height) returns false, does not call dispatch    *)
(* and leaves the document unchanged, with a dispatch callback and without *)
(* one.                                                                    *)
C1_DeleteRowRefusesAllRows ==
  (/\ Called("deleteRow") /\ isInTable(prev)
   /\ PrevRect.top = 0 /\ PrevRect.bottom = PrevRect.map.height)
    => (~out.ret /\ out.calls = 0 /\ state.table = prev.table)

(* C2: deleteColumn called on a selection whose rectangle covers every     *)
(* column (left = 0, right = map.width) returns false, does not call       *)
(* dispatch and leaves the document unchanged, with a dispatch callback    *)
(* and without one.                                                        *)
C2_DeleteColumnRefusesAllColumns ==
  (/\ Called("deleteColumn") /\ isInTable(prev)
   /\ PrevRect.left = 0 /\ PrevRect.right = PrevRect.map.width)
    => (~out.ret /\ out.calls = 0 /\ state.table = prev.table)

(* C3: whenever a command is called with a dispatch callback, the callback *)
(* has been called exactly once (with the command's transaction) if the    *)
(* command returns true, and not at all if it returns false.               *)
C3_DispatchedOnceWhenTrue ==
  (~Fresh /\ call.dispatch /\ ~out.threw)
    => /\ out.ret => out.calls = 1
       /\ ~out.ret => out.calls = 0

(* The roles of the sections of a table, in document order.                *)
SectionRoles(table) ==
  [s \in 1..Len(Sections(table)) |-> table[Sections(table)[s]].role]

(* At most one head, first among the sections; at most one foot, last.     *)
HeadFirstFootLast(table) ==
  \A s \in 1..Len(SectionRoles(table)) :
    /\ SectionRoles(table)[s] = "head" => s = 1
    /\ SectionRoles(table)[s] = "foot" => s = Len(SectionRoles(table))

(* The caption, if any, is the first child of the table.                   *)
CaptionFirst(table) ==
  \A c \in 1..Len(table) : table[c].role = "caption" => c = 1

(* The role of the section that holds logical row r.                       *)
RoleOfRow(table, r) == table[RowRefs(table)[r + 1].ci].role

(* The last call returned false, dispatched nothing and changed nothing.   *)
WasRefused == ~out.ret /\ out.calls = 0 /\ state = prev

(* C4: from a table with at most one head (first) and at most one foot     *)
(* (last), an applied makeHead, makeBody or makeFoot leaves a table with   *)
(* at most one head, first, and at most one foot, last.                    *)
C4_MakeSectionKeepsHeadFirstFootLast ==
  (/\ call.cmd \in {"makeHead", "makeBody", "makeFoot"}
   /\ out.calls = 1
   /\ HeadFirstFootLast(prev.table))
    => HeadFirstFootLast(state.table)

SlotInRect(map, rect, i) ==
  /\ rect.left <= i % map.width /\ i % map.width < rect.right
  /\ rect.top <= i \div map.width /\ i \div map.width < rect.bottom

(* Some cell occupies a slot inside rect and a slot outside it.            *)
Straddles(map, rect) ==
  \E i, j \in DOMAIN map.map :
    /\ map.map[i] = map.map[j]
    /\ SlotInRect(map, rect, i) /\ ~SlotInRect(map, rect, j)

(* All rows of rect lie in the same child of the table.                    *)
RowsInOneSection(table, rect) ==
  \A r \in rect.top..(rect.bottom - 1) :
    RowRefs(table)[r + 1].ci = RowRefs(table)[rect.top + 1].ci

(* The selection mergeCells was called on is a cell selection with         *)
(* distinct anchor and head whose rectangle lies in one section and is     *)
(* straddled by no cell.                                                   *)
Mergeable ==
  /\ prev.sel.kind = "cell" /\ prev.sel.anchor # prev.sel.head
  /\ RowsInOneSection(prev.table, PrevRect)
  /\ ~Straddles(PrevRect.map, PrevRect)

(* C6: mergeCells returns true exactly when the selection is a cell        *)
(* selection with distinct anchor and head, all rows of its rectangle lie  *)
(* in one section and no cell straddles the rectangle; on the rectangle of *)
(* a cell selection cellsOverlapRectangle is true iff some cell occupies a *)
(* slot inside and a slot outside it; and a mergeCells that is not         *)
(* applicable returns false, with or without dispatch, and changes nothing.*)
C6_MergeCellsApplicability ==
  Called("mergeCells")
    => /\ out.ret <=> Mergeable
       /\ prev.sel.kind = "cell"
            => (cellsOverlapRectangle(PrevRect.map, PrevRect)
                  <=> Straddles(PrevRect.map, PrevRect))
       /\ ~Mergeable => WasRefused

(* C6 witness: mergeCells called with a dispatch callback on a cell        *)
(* selection inside one section whose rectangle a cell straddles.          *)
C6_Witness ==
  /\ Called("mergeCells") /\ call.dispatch
  /\ prev.sel.kind = "cell" /\ prev.sel.anchor # prev.sel.head
  /\ RowsInOneSection(prev.table, PrevRect)
  /\ Straddles(PrevRect.map, PrevRect)
  /\ WasRefused

(* The grid map of the table the last command was called on, and of the    *)
(* table it left.                                                          *)
PrevMap == TableMapGet(prev.table)

NewMap == TableMapGet(state.table)

(* The cell that occupies slot i of the grid, NoCell when none does.       *)
CellAtSlot(table, map, i) == nodeAt(table, MapAt(map, i))

(* Every slot outside rect holds in table `new` (grid nm) a cell equal to  *)
(* the one it held in table `old` (grid pm), with the same footprint.      *)
SameOutside(old, pm, new, nm, rect) ==
  \A i \in DOMAIN pm.map :
    ~SlotInRect(pm, rect, i)
      => /\ i \in DOMAIN nm.map
         /\ CellAtSlot(new, nm, i) = CellAtSlot(old, pm, i)
         /\ \A j \in DOMAIN pm.map :
              (pm.map[i] = pm.map[j]) <=> (nm.map[i] = nm.map[j])

(* The contents of the non-empty cells of rect other than the cell `but`,  *)
(* taken in the row-major order of their top-left slots, from slot i on.   *)
RECURSIVE AbsorbedFrom(_, _, _, _, _)
AbsorbedFrom(table, map, rect, but, i) ==
  IF i >= map.width * map.height THEN <<>>
  ELSE (IF /\ SlotInRect(map, rect, i)
           /\ map.map[i] # but
           /\ \A j \in 0..(i - 1) : map.map[j] # map.map[i]
           /\ CellAtSlot(table, map, i).content # <<0>>
          THEN CellAtSlot(table, map, i).content ELSE <<>>)
         \o AbsorbedFrom(table, map, rect, but, i + 1)

(* The top-left slot of rect.                                              *)
TopLeft(map, rect) == rect.top * map.width + rect.left

(* The content the claim gives the merged cell.                            *)
MergedContent(table, map, rect) ==
  LET Join(own, absorbed) ==
        (IF own = <<0>> /\ absorbed # <<>> THEN <<>> ELSE own) \o absorbed
  IN  Join(CellAtSlot(table, map, TopLeft(map, rect)).content,
           AbsorbedFrom(table, map, rect, map.map[TopLeft(map, rect)], 0))

(* What the claim says of the table `new` a merge of rect R left, given    *)
(* the table `old` it was applied to.                                      *)
MergedAsClaimed(old, pm, new, nm, R) ==
  LET Holds(pos, merged) ==
        /\ nm.width = pm.width
        /\ nm.height = pm.height
        /\ merged # NoCell
        /\ \A i \in DOMAIN nm.map : SlotInRect(pm, R, i) <=> nm.map[i] = pos
        /\ merged.colspan = R.right - R.left
        /\ merged.rowspan = R.bottom - R.top
        /\ \/ merged.colwidth = NoWidths
           \/ Len(merged.colwidth) = merged.colspan
        /\ merged.content = MergedContent(old, pm, R)
        /\ merged.type = CellAtSlot(old, pm, TopLeft(pm, R)).type
        /\ SameOutside(old, pm, new, nm, R)
        /\ state.sel = CellSel(TableStart + pos, TableStart + pos)
      At(pos) == Holds(pos, nodeAt(new, pos))
  IN  At(MapAt(nm, TopLeft(pm, R)))

(* C7: after an applied mergeCells on rectangle R the cell at R's top-left *)
(* slot is the only cell in R, with colspan R.right - R.left and rowspan   *)
(* R.bottom - R.top, its colwidth null or of colspan entries; its content  *)
(* is its own (dropped when it was the empty placeholder and content was   *)
(* absorbed) followed by that of the other non-empty cells of R in         *)
(* row-major order; the cells outside R are unchanged and the selection is *)
(* a cell selection on the merged cell.                                    *)
C7_MergeCellsResult ==
  (Called("mergeCells") /\ out.calls = 1)
    => MergedAsClaimed(prev.table, PrevMap, state.table, NewMap, PrevRect)

(* An applied merge of R whose top-left cell was empty and that absorbed   *)
(* content of other cells.                                                 *)
AbsorbedIntoEmpty(old, pm, new, nm, R) ==
  /\ (R.right - R.left) * (R.bottom - R.top) >= 4
  /\ CellAtSlot(old, pm, TopLeft(pm, R)).content = <<0>>
  /\ Len(MergedContent(old, pm, R)) >= 2
  /\ CellAtSlot(new, nm, TopLeft(pm, R)).content = MergedContent(old, pm, R)

(* C7 witness: an applied mergeCells on a rectangle of at least four slots *)
(* whose top-left cell was empty and that absorbed content of other cells. *)
C7_Witness ==
  /\ Called("mergeCells") /\ out.calls = 1
  /\ AbsorbedIntoEmpty(prev.table, PrevMap, state.table, NewMap, PrevRect)

(* The cell the split commands are aimed at: the cell the selection of the *)
(* state before the call is in or on, NoCell when it is outside the table. *)
TargetPos == prev.sel.anchor - TableStart

TargetCell ==
  IF prev.sel.kind = "none" THEN NoCell ELSE nodeAt(prev.table, TargetPos)

SplitCalled == call.cmd \in {"splitCell", "splitCellWithType"}

(* The colwidth the claim gives a cell in column i (from 0) of the         *)
(* footprint of the split cell.                                            *)
SplitWidth(cell, i) ==
  IF /\ cell.colwidth # NoWidths
     /\ i + 1 <= Len(cell.colwidth)
     /\ cell.colwidth[i + 1] # 0
    THEN <<cell.colwidth[i + 1]>> ELSE NoWidths

(* What the claim says of the table `new` a split of `cell`, of footprint  *)
(* F in table `old`, has left.                                             *)
SplitAsClaimed(old, pm, new, nm, cell, F, chooser) ==
  /\ nm.width = pm.width
  /\ nm.height = pm.height
  /\ \A i \in DOMAIN pm.map :
       SlotInRect(pm, F, i)
         => LET Unit(c, row, col) ==
                  /\ c # NoCell
                  /\ \A j \in DOMAIN nm.map : nm.map[j] = nm.map[i] => j = i
                  /\ c.colspan = 1 /\ c.rowspan = 1
                  /\ c.type = getCellType(chooser, cell, row, col)
                  /\ c.colwidth = SplitWidth(cell, col - F.left)
                  /\ (row = F.top /\ col = F.left) => c.content = cell.content
            IN  Unit(CellAtSlot(new, nm, i), i \div pm.width, i % pm.width)
  /\ SameOutside(old, pm, new, nm, F)

(* C8: splitCell and splitCellWithType return false and change nothing     *)
(* when the target cell is 1 x 1 or a cell selection covers more than one  *)
(* cell; otherwise they return true and, applied, leave one 1 x 1 cell per *)
(* slot of the target's footprint, of the type the chooser gives for the   *)
(* slot (the target's own type for splitCell), the target's content in the *)
(* top-left slot, in footprint column i the colwidth [w_i] when the        *)
(* target's entry w_i is set and non-zero and null otherwise, and every    *)
(* cell outside the footprint unchanged.                                   *)
C8_SplitCellResult ==
  (SplitCalled /\ TargetCell # NoCell)
    => LET multi == prev.sel.kind = "cell" /\ prev.sel.anchor # prev.sel.head
           unit == TargetCell.colspan = 1 /\ TargetCell.rowspan = 1
       IN  /\ (multi \/ unit) => WasRefused
           /\ ~(multi \/ unit)
                => /\ out.ret /\ ~out.threw
                   /\ out.calls = (IF call.dispatch THEN 1 ELSE 0)
                   /\ ~call.dispatch => state = prev
                   /\ call.dispatch
                        => SplitAsClaimed(prev.table, PrevMap,
                                          state.table, NewMap, TargetCell,
                                          findCell(PrevMap, TargetPos),
                                          call.chooser)

(* C8 witness: splitCellWithType with the alternating chooser applied to a *)
(* cell spanning two rows that has a colwidth, leaving a header cell and a *)
(* plain cell in its footprint.                                            *)
C8_Witness ==
  /\ Called("splitCellWithType") /\ out.calls = 1
  /\ call.chooser = Chooser("checker")
  /\ TargetCell.rowspan = 2
  /\ TargetCell.colwidth # NoWidths
  /\ LET F == findCell(PrevMap, TargetPos)
     IN  CellAtSlot(state.table, NewMap, TopLeft(PrevMap, F)).type
           # CellAtSlot(state.table, NewMap,
                        TopLeft(PrevMap, F) + PrevMap.width).type

(* The grid map of the table the first command was called on.              *)
FirstMap == TableMapGet(first.table)

(* Two grids of the same size have the same cell footprints: two slots     *)
(* belong to one cell in the one exactly when they do in the other.        *)
SameFootprints(ma, mb) ==
  /\ DOMAIN ma.map = DOMAIN mb.map
  /\ \A i, j \in DOMAIN ma.map :
       (ma.map[i] = ma.map[j]) <=> (mb.map[i] = mb.map[j])

(* Every cell with a slot in rect is 1 x 1.                                *)
OnlyUnitCells(table, map, rect) ==
  \A i \in DOMAIN map.map :
    SlotInRect(map, rect, i)
      => /\ CellAtSlot(table, map, i).colspan = 1
         /\ CellAtSlot(table, map, i).rowspan = 1

(* What the claim says of the table `new` that a merge of rect R of table  *)
(* `old` followed by the split of the merged cell has left.                *)
RoundTripAsClaimed(old, om, new, nm, R) ==
  /\ nm.width = om.width
  /\ nm.height = om.height
  /\ OnlyUnitCells(old, om, R)
       => /\ SameFootprints(om, nm)
          /\ TypeGrid(new) = TypeGrid(old)

(* C9: mergeCells applied to a rectangle and then splitCellWithType        *)
(* applied to the merged cell, with a chooser that returns the type each   *)
(* slot's cell had before the merge, leave a table of the grid width and   *)
(* height it had before the merge; when the rectangle held only 1 x 1      *)
(* cells, every slot also has the footprint and the cell type it had.      *)
C9_MergeThenSplit ==
  (Called("mergeCells") /\ out.calls = 1
     => /\ prev.sel.kind = "cell"
        /\ state.sel.kind = "cell" /\ state.sel.anchor = state.sel.head)
  /\ (Called("splitMerged")
     => /\ out.ret /\ out.calls = 1
        /\ RoundTripAsClaimed(first.table, FirstMap, state.table, NewMap,
                              selectedRect(first)))

(* C9 witness: a rectangle of 1 x 1 cells of both types, two rows high and *)
(* two columns wide, was merged and the merged cell split again.           *)
C9_Witness ==
  /\ Called("splitMerged") /\ out.calls = 1
  /\ LET R == selectedRect(first)
     IN  /\ R.right - R.left = 2 /\ R.bottom - R.top = 2
         /\ OnlyUnitCells(first.table, FirstMap, R)
         /\ CellAtSlot(first.table, FirstMap, TopLeft(FirstMap, R)).type
              # CellAtSlot(first.table, FirstMap,
                           TopLeft(FirstMap, R) + 1).type
  /\ TypeGrid(state.table) = TypeGrid(first.table)

(* The table is rectangular: every slot of its grid holds a cell, and      *)
(* every cell of the table holds as many slots as its spans say.           *)
Rectangular(table, map) ==
  /\ \A i \in DOMAIN map.map : map.map[i] # 0
  /\ \A p \in CellPositions(table) :
       Cardinality({i \in DOMAIN map.map : map.map[i] = p - TableStart})
         = nodeAt(table, p - TableStart).colspan
             * nodeAt(table, p - TableStart).rowspan

(* The slot of the grid widened at column col that slot i of the old grid  *)
(* of the given width has moved to.                                        *)
Shifted(width, col, i) ==
  (i \div width) * (width + 1) + (i % width)
    + (IF i % width >= col THEN 1 ELSE 0)

(* The cell at slot i of the grid holds both column col - 1 and column col.*)
Across(map, col, i) ==
  LET At(c) ==
        /\ c.left < col /\ col < c.right
  IN  At(findCell(map, map.map[i]))

(* What the claim says of the table `new` that addColumn at column col has *)
(* made of the table `old`.                                                *)
ColumnAddedAsClaimed(old, pm, new, nm, col) ==
  /\ nm.width = pm.width + 1
  /\ nm.height = pm.height
  /\ Rectangular(new, nm)
  /\ \A i \in DOMAIN pm.map :
       LET Kept(was, now) ==
             IF Across(pm, col, i)
               THEN /\ now.colspan = was.colspan + 1
                    /\ now.rowspan = was.rowspan
                    /\ now.type = was.type
                    /\ now.content = was.content
                    /\ now.bg = was.bg
               ELSE now = was
       IN  /\ Kept(CellAtSlot(old, pm, i),
                   CellAtSlot(new, nm, Shifted(pm.width, col, i)))
           /\ \A j \in DOMAIN pm.map :
                /\ (pm.map[i] = pm.map[j])
                     <=> (MapAt(nm, Shifted(pm.width, col, i))
                            = MapAt(nm, Shifted(pm.width, col, j)))
                /\ (pm.map[i] < pm.map[j])
                     => (MapAt(nm, Shifted(pm.width, col, i))
                           < MapAt(nm, Shifted(pm.width, col, j)))
  /\ \A row \in 0..(pm.height - 1) :
       LET New(k, c) ==
             IF col > 0 /\ col < pm.width
                  /\ Across(pm, col, row * pm.width + col)
               THEN MapAt(nm, k) = MapAt(nm, k - 1)
               ELSE /\ c # NoCell
                    /\ c.colspan = 1 /\ c.rowspan = 1
                    /\ c.content = <<0>>
                    /\ c.colwidth = NoWidths
                    /\ \A j \in DOMAIN nm.map : nm.map[j] = nm.map[k] => j = k
       IN  New(row * (pm.width + 1) + col,
               CellAtSlot(new, nm, row * (pm.width + 1) + col))

(* C10: addColumn(tr, rect, col) with 0 <= col <= width on a rectangular   *)
(* table leaves a rectangular table one column wider and of the same       *)
(* height; every cell that held both column col - 1 and column col has its *)
(* colspan raised by exactly one and no cell is inserted in the rows it    *)
(* covers; every other row has exactly one new empty 1 x 1 cell, at grid   *)
(* column col; no other cell changes its attributes, content or order.     *)
C10_AddColumnResult ==
  Called("addColumn")
    => /\ ~out.threw /\ out.calls = 1
       /\ Rectangular(prev.table, PrevMap)
       /\ ColumnAddedAsClaimed(prev.table, PrevMap, state.table, NewMap,
                               call.n)

(* A cell spanning two rows and holding columns col - 1 and col was        *)
(* widened, and some other row got a new cell.                             *)
GrownAndInserted(old, pm, new, nm, col) ==
  /\ col > 0 /\ col < pm.width
  /\ \E i \in DOMAIN pm.map :
       /\ i % pm.width = col
       /\ Across(pm, col, i)
       /\ CellAtSlot(old, pm, i).rowspan = 2
       /\ CellAtSlot(new, nm, Shifted(pm.width, col, i)).colspan = 3
  /\ \E row \in 0..(pm.height - 1) :
       /\ ~Across(pm, col, row * pm.width + col)
       /\ CellAtSlot(new, nm, row * (pm.width + 1) + col).content = <<0>>

(* C10 witness: addColumn inside a cell two rows high and two columns wide *)
(* of a table that has another row.                                        *)
C10_Witness ==
  /\ Called("addColumn")
  /\ GrownAndInserted(prev.table, PrevMap, state.table, NewMap, call.n)

(* The type the claim gives the cell addColumn inserts at column col in    *)
(* row `row` of the table with grid pm.                                    *)
NewColumnCellType(old, pm, col, row) ==
  LET ref == IF col > 0 THEN col - 1 ELSE 0
      header == \A r \in 0..(pm.height - 1) :
                  CellAtSlot(old, pm, r * pm.width + ref).type = "header_cell"
  IN  IF ~header THEN CellAtSlot(old, pm, row * pm.width + ref).type
      ELSE IF col = 0 \/ col = pm.width THEN "cell"
      ELSE CellAtSlot(old, pm, row * pm.width + col).type

(* Every row of the grid pm that has no cell across columns col - 1 and    *)
(* col has, in the widened grid nm, a cell of the claimed type at column   *)
(* col.                                                                    *)
NewColumnTypesAsClaimed(old, pm, new, nm, col) ==
  \A row \in 0..(pm.height - 1) :
    ~(col > 0 /\ col < pm.width /\ Across(pm, col, row * pm.width + col))
      => CellAtSlot(new, nm, row * (pm.width + 1) + col).type
           = NewColumnCellType(old, pm, col, row)

(* C11: a cell addColumn inserts at column col has the type of the cell in *)
(* its row in the reference column (col - 1, or 0 when col = 0) unless the *)
(* reference column holds header cells only; then it is a plain cell for   *)
(* col = 0 or col = width, and has the type of the cell in its row at      *)
(* column col otherwise.                                                   *)
C11_AddColumnCellTypes ==
  Called("addColumn")
    => /\ ~out.threw /\ out.calls = 1
       /\ NewColumnTypesAsClaimed(prev.table, PrevMap, state.table, NewMap,
                                  call.n)

(* The reference column of an interior insert at col holds header cells    *)
(* only and the cell inserted in some row is a plain cell.                 *)
HeaderReferenceInside(old, pm, new, nm, col) ==
  /\ col > 0 /\ col < pm.width
  /\ pm.height >= 2
  /\ \A r \in 0..(pm.height - 1) :
       CellAtSlot(old, pm, r * pm.width + col - 1).type = "header_cell"
  /\ \E row \in 0..(pm.height - 1) :
       /\ ~Across(pm, col, row * pm.width + col)
       /\ CellAtSlot(new, nm, row * (pm.width + 1) + col).type = "cell"

(* C11 witness: addColumn right of a header column, the new cells taking   *)
(* the plain type of their right neighbours.                               *)
C11_Witness ==
  /\ Called("addColumn")
  /\ HeaderReferenceInside(prev.table, PrevMap, state.table, NewMap, call.n)

(* Every cell of the row is an empty 1 x 1 cell.                           *)
NewRow(row) ==
  \A k \in 1..Len(row) :
    /\ row[k].colspan = 1 /\ row[k].rowspan = 1
    /\ row[k].content = <<0>>

(* Table `new` is table `old` with one new row put in child ci as its row  *)
(* number ri, every other row and child as it was.                         *)
RowPutAt(old, new, ci, ri) ==
  /\ Len(new) = Len(old)
  /\ \A c \in 1..Len(old) : c # ci => new[c] = old[c]
  /\ new[ci].role = old[ci].role
  /\ Len(new[ci].rows) = Len(old[ci].rows) + 1
  /\ NewRow(new[ci].rows[ri])
  /\ \A r \in 1..Len(old[ci].rows) :
       new[ci].rows[IF r < ri THEN r ELSE r + 1] = old[ci].rows[r]

(* The place of logical row r of the table: its child and its row in it.   *)
RefOfRow(table, r) == RowRefs(table)[r + 1]

(* C12: addRowAfter applied to a selection whose bottom row is the last    *)
(* row of a section puts the new row in as the new last row of that        *)
(* section, whether or not a section follows: the children of the table    *)
(* are as many, that section has one row more and the others keep their    *)
(* rows; addRowBefore applied to a selection whose top row is the first    *)
(* row of a section puts the new row in as the first row of that section.  *)
C12_AddRowStaysInSection ==
  /\ (Called("addRowAfter") /\ call.dispatch /\ isInTable(prev))
       => LET After(ref) ==
                ref.ri = Len(prev.table[ref.ci].rows)
                  => /\ out.calls = 1
                     /\ RowPutAt(prev.table, state.table, ref.ci, ref.ri + 1)
          IN  After(RefOfRow(prev.table, PrevRect.bottom - 1))
  /\ (Called("addRowBefore") /\ call.dispatch /\ isInTable(prev))
       => LET Before(ref) ==
                ref.ri = 1
                  => /\ out.calls = 1
                     /\ RowPutAt(prev.table, state.table, ref.ci, 1)
          IN  Before(RefOfRow(prev.table, PrevRect.top))

(* The slot of the grid heightened at row `row` that slot i of the old     *)
(* grid of the given width has moved to.                                   *)
ShiftedDown(width, row, i) ==
  IF i \div width >= row THEN i + width ELSE i

(* The cell at slot i of the grid holds both row `row` - 1 and row `row`.  *)
AcrossRows(map, row, i) ==
  LET At(c) == c.top < row /\ row < c.bottom
  IN  At(findCell(map, map.map[i]))

(* The type the claim gives the cell addRow inserts in column col of the   *)
(* new row `row` of the table with grid pm.                                *)
NewRowCellType(old, pm, row, col) ==
  LET ref == IF row > 0 THEN row - 1 ELSE 0
      header == \A c \in 0..(pm.width - 1) :
                  CellAtSlot(old, pm, ref * pm.width + c).type = "header_cell"
  IN  IF ~header THEN CellAtSlot(old, pm, ref * pm.width + col).type
      ELSE IF row = 0 \/ row = pm.height THEN "cell"
      ELSE CellAtSlot(old, pm, row * pm.width + col).type

(* What the claim says of the table `new` that addRow at row `row` has     *)
(* made of the table `old`.                                                *)
RowAddedAsClaimed(old, pm, new, nm, row) ==
  /\ nm.width = pm.width
  /\ nm.height = pm.height + 1
  /\ Rectangular(new, nm)
  /\ \A i \in DOMAIN pm.map :
       LET Kept(was, now) ==
             IF AcrossRows(pm, row, i)
               THEN now = [was EXCEPT !.rowspan = @ + 1]
               ELSE now = was
       IN  /\ Kept(CellAtSlot(old, pm, i),
                   CellAtSlot(new, nm, ShiftedDown(pm.width, row, i)))
           /\ \A j \in DOMAIN pm.map :
                /\ (pm.map[i] = pm.map[j])
                     <=> (MapAt(nm, ShiftedDown(pm.width, row, i))
                            = MapAt(nm, ShiftedDown(pm.width, row, j)))
                /\ (pm.map[i] < pm.map[j])
                     => (MapAt(nm, ShiftedDown(pm.width, row, i))
                           < MapAt(nm, ShiftedDown(pm.width, row, j)))
  /\ \A col \in 0..(pm.width - 1) :
       LET New(k, c) ==
             IF row > 0 /\ row < pm.height
                  /\ AcrossRows(pm, row, row * pm.width + col)
               THEN MapAt(nm, k) = MapAt(nm, k - pm.width)
               ELSE /\ c # NoCell
                    /\ c.colspan = 1 /\ c.rowspan = 1
                    /\ c.content = <<0>>
                    /\ c.type = NewRowCellType(old, pm, row, col)
                    /\ \A j \in DOMAIN nm.map : nm.map[j] = nm.map[k] => j = k
       IN  New(row * pm.width + col, CellAtSlot(new, nm, row * pm.width + col))

(* C13: addRow(tr, rect, row) with 0 <= row <= height on a rectangular     *)
(* table leaves a rectangular table one row higher and of the same width;  *)
(* every cell that held both row `row` - 1 and row `row` has its rowspan   *)
(* raised by exactly one and no cell is made for its columns; the new row  *)
(* has one new empty 1 x 1 cell for every other column, in column order,   *)
(* of the type of the cell above it (of row 0 when row = 0) unless that    *)
(* reference row holds header cells only: then a plain cell for row = 0 or *)
(* row = height, and of the type of the cell of row `row` otherwise.       *)
C13_AddRowResult ==
  Called("addRow")
    => /\ ~out.threw /\ out.calls = 1
       /\ Rectangular(prev.table, PrevMap)
       /\ RowAddedAsClaimed(prev.table, PrevMap, state.table, NewMap, call.n)

(* The number of rows of the range [top, bottom) in [from, to).            *)
RowsWithin(top, bottom, from, to) ==
  Max(0, Min(bottom, to) - Max(top, from))

(* The logical row that row ri of child ci of the table is.                *)
RowIndexOf(table, ci, ri) ==
  Cardinality({r \in 1..Len(RowRefs(table)) :
                  \/ RowRefs(table)[r].ci < ci
                  \/ RowRefs(table)[r].ci = ci /\ RowRefs(table)[r].ri < ri})

(* The number of rows of child ci of the table outside [top, bottom).      *)
RowsLeft(table, ci, top, bottom) ==
  Cardinality({ri \in 1..Len(table[ci].rows) :
                  RowIndexOf(table, ci, ri) < top
                    \/ RowIndexOf(table, ci, ri) >= bottom})

(* The children of the table that outlive the deletion of the rows         *)
(* [top, bottom): the caption and the sections with a row outside them.    *)
ChildrenLeft(table, top, bottom) ==
  SelectSeq([c \in 1..Len(table) |-> c],
            LAMBDA c : ~isTableSection(table[c])
                         \/ RowsLeft(table, c, top, bottom) > 0)

(* What the claim says of the sections of the table `new` that the         *)
(* deletion of rows [top, bottom) has made of the table `old`.             *)
SectionsLeftAsClaimed(old, new, left, top, bottom) ==
  /\ Len(new) = Len(left)
  /\ \A k \in 1..Len(left) :
       /\ new[k].role = old[left[k]].role
       /\ IF isTableSection(old[left[k]])
            THEN /\ Len(new[k].rows) = RowsLeft(old, left[k], top, bottom)
                 /\ Len(new[k].rows) > 0
            ELSE new[k] = old[left[k]]

(* What the claim says of the cells of the table `new` that the deletion   *)
(* of rows [top, bottom) has made of the table `old`.                      *)
RowsDeletedAsClaimed(old, pm, new, nm, top, bottom) ==
  /\ nm.width = pm.width
  /\ nm.height = pm.height - (bottom - top)
  /\ \A i \in DOMAIN pm.map :
       (i \div pm.width < top \/ i \div pm.width >= bottom)
         => LET To(k) == IF k \div pm.width >= bottom
                           THEN k - (bottom - top) * pm.width ELSE k
                Kept(F, was, now) ==
                  now = [was EXCEPT
                           !.rowspan = @ - RowsWithin(top, bottom,
                                                      F.top, F.bottom)]
            IN  /\ Kept(findCell(pm, pm.map[i]), CellAtSlot(old, pm, i),
                        CellAtSlot(new, nm, To(i)))
                /\ \A j \in DOMAIN pm.map :
                     (j \div pm.width < top \/ j \div pm.width >= bottom)
                       => ((pm.map[i] = pm.map[j])
                             <=> (MapAt(nm, To(i)) = MapAt(nm, To(j))))

(* C14: an applied deleteRow on rows [top, bottom) of a rectangular table  *)
(* without a cell across two sections leaves the width and takes           *)
(* bottom - top off the height; the sections with all rows in the range    *)
(* are gone and no section is left without a row; a cell that reached into *)
(* the range from above, and a cell that started in the range and reached  *)
(* below it, is left with its content and colspan, on the rows it had      *)
(* outside the range, its rowspan less by the deleted rows it held; every  *)
(* other cell outside the range is unchanged.                              *)
C14_DeleteRowResult ==
  (Called("deleteRow") /\ out.calls = 1)
    => /\ Rectangular(prev.table, PrevMap)
       /\ SectionsLeftAsClaimed(prev.table, state.table,
                                ChildrenLeft(prev.table, PrevRect.top,
                                             PrevRect.bottom),
                                PrevRect.top, PrevRect.bottom)
       /\ RowsDeletedAsClaimed(prev.table, PrevMap, state.table, NewMap,
                               PrevRect.top, PrevRect.bottom)

(* A section went as a whole and a cell that started in the range [top,    *)
(* bottom) is left below it.                                               *)
SectionGoneAndCellMovedDown(old, pm, new, nm, top, bottom) ==
  /\ Len(new) < Len(old)
  /\ \E i \in DOMAIN pm.map :
       /\ i \div pm.width >= bottom
       /\ findCell(pm, pm.map[i]).top < bottom
       /\ findCell(pm, pm.map[i]).top >= top
       /\ CellAtSlot(new, nm, i - (bottom - top) * pm.width).content
            = CellAtSlot(old, pm, i).content
       /\ CellAtSlot(new, nm, i - (bottom - top) * pm.width).rowspan
            < CellAtSlot(old, pm, i).rowspan

(* C14 witness: deleteRow applied to two rows, the one the only row of a   *)
(* section, the other the first row of a cell two rows high.               *)
C14_Witness ==
  /\ Called("deleteRow") /\ out.calls = 1
  /\ SectionGoneAndCellMovedDown(prev.table, PrevMap, state.table, NewMap,
                                 PrevRect.top, PrevRect.bottom)

(* The colwidth the claim leaves a cell of footprint F after the deletion  *)
(* of the columns [left, right): the entries of the other columns, null    *)
(* when none of them is positive.                                          *)
WidthsLeft(colwidth, F, left, right) ==
  LET kept == SelectSeq([j \in 1..Len(colwidth) |-> j],
                        LAMBDA j : F.left + j - 1 < left
                                     \/ F.left + j - 1 >= right)
      ws == [k \in 1..Len(kept) |-> colwidth[kept[k]]]
  IN  IF \E k \in 1..Len(ws) : ws[k] > 0 THEN ws ELSE NoWidths

(* The number of columns that the deletion handles: for every column of    *)
(* the range, the cells with a slot in it.                                 *)
CellsInColumns(pm, left, right) ==
  LET InColumn(c) ==
        Cardinality({pm.map[r * pm.width + c] : r \in 0..(pm.height - 1)})
      RECURSIVE Sum(_)
      Sum(c) == IF c >= right THEN 0 ELSE InColumn(c) + Sum(c + 1)
  IN  Sum(left)

(* What the claim says of the table `new` that the deletion of the columns *)
(* [left, right) has made of the table `old`.                              *)
ColumnsDeletedAsClaimed(old, pm, new, nm, left, right) ==
  /\ nm.width = pm.width - (right - left)
  /\ nm.height = pm.height
  /\ Rectangular(new, nm)
  /\ \A i \in DOMAIN pm.map :
       (i % pm.width < left \/ i % pm.width >= right)
         => LET To(k) == (k \div pm.width) * nm.width + (k % pm.width)
                           - (IF k % pm.width >= right THEN right - left
                              ELSE 0)
                Kept(F, was, now) ==
                  now = [was EXCEPT
                           !.colspan = @ - RowsWithin(left, right,
                                                      F.left, F.right),
                           !.colwidth = WidthsLeft(@, F, left, right)]
            IN  /\ Kept(findCell(pm, pm.map[i]), CellAtSlot(old, pm, i),
                        CellAtSlot(new, nm, To(i)))
                /\ \A j \in DOMAIN pm.map :
                     (j % pm.width < left \/ j % pm.width >= right)
                       => ((pm.map[i] = pm.map[j])
                             <=> (MapAt(nm, To(i)) = MapAt(nm, To(j))))

(* C15: an applied deleteColumn on the columns [left, right), not all of   *)
(* them, of a rectangular table leaves a rectangular table of the same     *)
(* height and right - left columns less; the cells inside the range are    *)
(* gone; a cell with k > 0 columns in the range and a column outside it    *)
(* is left with its colspan less by k and, when its colwidth is set, that  *)
(* colwidth without the k entries of the removed columns, null when no     *)
(* positive entry is left; the cells without a column in the range are     *)
(* unchanged.  The columns go one at a time: the transaction has one step  *)
(* for every cell of every column of the range.                            *)
C15_DeleteColumnResult ==
  (Called("deleteColumn") /\ out.calls = 1)
    => /\ Rectangular(prev.table, PrevMap)
       /\ ~(PrevRect.left = 0 /\ PrevRect.right = PrevMap.width)
       /\ ColumnsDeletedAsClaimed(prev.table, PrevMap, state.table, NewMap,
                                  PrevRect.left, PrevRect.right)
       /\ out.steps = CellsInColumns(PrevMap, PrevRect.left, PrevRect.right)

(* A cell with a colwidth that starts left of the range [left, right) of   *)
(* two columns and reaches into it is left with one column.                *)
ShrunkToNoWidth(old, pm, new, nm, left, right) ==
  /\ right - left = 2
  /\ \E i \in DOMAIN pm.map :
       /\ i % pm.width < left
       /\ findCell(pm, pm.map[i]).right > left
       /\ CellAtSlot(old, pm, i).colwidth # NoWidths
       /\ CellAtSlot(new, nm, (i \div pm.width) * nm.width + (i % pm.width))
            .colspan = 1

(* C15 witness: deleteColumn applied to two columns, one of them held by a *)
(* cell with a colwidth that starts left of the range.                     *)
C15_Witness ==
  /\ Called("deleteColumn") /\ out.calls = 1
  /\ ShrunkToNoWidth(prev.table, PrevMap, state.table, NewMap,
                     PrevRect.left, PrevRect.right)

(* Logical row r of the table.                                             *)
RowAt(table, r) == RowOf(table, RowRefs(table)[r + 1])

MakeSectionApplied ==
  call.cmd \in {"makeHead", "makeBody", "makeFoot"} /\ out.calls = 1

CellTypes == {"cell", "header_cell"}

(* Every cell of the rows [top, bottom) of table `new` has the type that   *)
(* the function of gives for the type the cell had in table `old`, and     *)
(* every cell of the other rows the type it had.                           *)
RowsRetyped(old, new, top, bottom, of) ==
  /\ Len(RowRefs(new)) = Len(RowRefs(old))
  /\ \A r \in 0..(Len(RowRefs(old)) - 1) :
       /\ Len(RowAt(new, r)) = Len(RowAt(old, r))
       /\ \A k \in 1..Len(RowAt(old, r)) :
            RowAt(new, r)[k].type
              = (IF top <= r /\ r < bottom THEN of[RowAt(old, r)[k].type]
                 ELSE RowAt(old, r)[k].type)

(* C16 as stated: after an applied makeHead, makeFoot or makeBody on rows  *)
(* [top, bottom) every cell of those rows is a header cell for head and    *)
(* foot and a plain cell for body, and the cells of the other rows keep    *)
(* their type.                                                             *)
C16_RetypedToConvention ==
  MakeSectionApplied
    => RowsRetyped(prev.table, state.table, PrevRect.top, PrevRect.bottom,
                   [type \in CellTypes |->
                      IF call.cmd = "makeBody" THEN "cell"
                      ELSE "header_cell"])

(* C16 as amended: after an applied makeHead or makeFoot on rows           *)
(* [top, bottom) every cell of those rows is a header cell; after an       *)
(* applied makeBody the cells of those rows keep their type; the cells of  *)
(* the other rows keep their type.                                         *)
C16_RetypedToHeaderOnly ==
  MakeSectionApplied
    => RowsRetyped(prev.table, state.table, PrevRect.top, PrevRect.bottom,
                   [type \in CellTypes |->
                      IF call.cmd = "makeBody" THEN type
                      ELSE "header_cell"])

(* C16 witness: makeHead applied to rows of a body that hold a plain cell, *)
(* which is a header cell afterwards.                                      *)
C16_Witness ==
  /\ Called("makeHead") /\ out.calls = 1
  /\ RoleOfRow(prev.table, PrevRect.top) = "body"
  /\ \E k \in 1..Len(RowAt(prev.table, PrevRect.top)) :
       /\ RowAt(prev.table, PrevRect.top)[k].type = "cell"
       /\ RowAt(state.table, PrevRect.top)[k].type = "header_cell"

(* The section role a makeSection command asks for.                        *)
RoleAsked ==
  CASE call.cmd = "makeHead" -> "head"
    [] call.cmd = "makeFoot" -> "foot"
    [] OTHER -> "body"

(* The rows [top, bottom) are exactly the rows of one section of the table *)
(* and that section has the given role.                                    *)
ExactlySectionOf(table, top, bottom, role) ==
  \E ci \in 1..Len(table) :
    /\ isTableSection(table[ci])
    /\ table[ci].role = role
    /\ Len(table[ci].rows) > 0
    /\ RowIndexOf(table, ci, 1) = top
    /\ RowIndexOf(table, ci, 1) + Len(table[ci].rows) = bottom

(* C17: makeHead returns false unless the selected rectangle starts at row *)
(* 0, makeFoot returns false unless it ends at the last row, and each of   *)
(* makeHead, makeBody and makeFoot returns false when the selected rows    *)
(* are exactly the rows of one section that has the role asked for; these  *)
(* refusals return false with and without a dispatch callback and dispatch *)
(* nothing.                                                                *)
C17_MakeSectionRefusals ==
  (call.cmd \in {"makeHead", "makeBody", "makeFoot"} /\ isInTable(prev))
    => /\ (Called("makeHead") /\ PrevRect.top > 0) => WasRefused
       /\ (Called("makeFoot") /\ PrevRect.bottom < PrevMap.height)
            => WasRefused
       /\ ExactlySectionOf(prev.table, PrevRect.top, PrevRect.bottom,
                           RoleAsked)
            => WasRefused

(* The table with the role of every cell forgotten.                        *)
RolesForgotten(table) ==
  [ci \in 1..Len(table) |->
    IF isTableSection(table[ci])
      THEN [table[ci] EXCEPT !.rows =
             [ri \in 1..Len(table[ci].rows) |->
               [k \in 1..Len(table[ci].rows[ri]) |->
                 [table[ci].rows[ri][k] EXCEPT !.type = "cell"]]]]
      ELSE table[ci]]

(* The rows from..to-1 of the table, in order.                             *)
RowsOfRange(table, from, to) ==
  [r \in 1..(to - from) |-> RowAt(table, from + r - 1)]

(* What child ci of the table becomes when the rows [top, bottom) are made *)
(* one section of the given role: a caption or a section away from those   *)
(* rows stays; of a section that holds some of them the rows above top     *)
(* and the rows from bottom on stay in sections of its role, and the       *)
(* section that holds row bottom-1 gives place to the new section.         *)
ChildRegrouped(table, ci, top, bottom, role) ==
  LET start == RowIndexOf(table, ci, 1)
      end == start + Len(table[ci].rows)
      above == IF start < top
                 THEN <<[table[ci] EXCEPT
                           !.rows = RowsOfRange(table, start, top)]>>
                 ELSE <<>>
      made == IF start <= bottom - 1 /\ bottom - 1 < end
                THEN <<[role |-> role,
                        rows |-> RowsOfRange(table, top, bottom),
                        size |-> 0]>>
                ELSE <<>>
      below == IF bottom < end
                 THEN <<[table[ci] EXCEPT
                           !.rows = RowsOfRange(table, bottom, end)]>>
                 ELSE <<>>
  IN  IF ~isTableSection(table[ci]) THEN <<table[ci]>>
      ELSE IF end <= top \/ start >= bottom THEN <<table[ci]>>
      ELSE above \o made \o below

RECURSIVE Regrouped(_, _, _, _, _)
Regrouped(table, ci, top, bottom, role) ==
  IF ci > Len(table) THEN <<>>
  ELSE ChildRegrouped(table, ci, top, bottom, role)
         \o Regrouped(table, ci + 1, top, bottom, role)

AnchorSlot(map, pos) ==
  CHOOSE i \in DOMAIN map.map :
    /\ map.map[i] = pos
    /\ \A j \in DOMAIN map.map : map.map[j] = pos => i <= j

(* Every cell of the table anchored in row 0 (line = "row") or in column 0 *)
(* (line = "column") is a header cell.                                     *)
HeaderLine(table, map, line) ==
  \A p \in CellPositions(table) :
    LET At(slot) ==
          (IF line = "row" THEN slot \div map.width = 0
           ELSE slot % map.width = 0)
            => nodeAt(table, p - TableStart).type = "header_cell"
    IN  At(AnchorSlot(map, p - TableStart))

(* The table `new` is the table `old` (grid pm) after the toggle of the    *)
(* header line: the cells anchored in the line, but for the corner cell    *)
(* when the other line is a header line, are plain cells if the line was a *)
(* header line and header cells otherwise; no other cell differs.          *)
LineToggledAsClaimed(old, pm, new, line, wasHeader, otherIsHeader) ==
  /\ RolesForgotten(new) = RolesForgotten(old)
  /\ \A p \in CellPositions(old) :
       LET Toggled(slot) ==
             /\ IF line = "row" THEN slot \div pm.width = 0
                ELSE slot % pm.width = 0
             /\ ~(otherIsHeader /\ slot = 0)
       IN  nodeAt(new, p - TableStart)
             = IF Toggled(AnchorSlot(pm, p - TableStart))
                 THEN [nodeAt(old, p - TableStart) EXCEPT
                         !.type = IF wasHeader THEN "cell"
                                  ELSE "header_cell"]
                 ELSE nodeAt(old, p - TableStart)

(* The line a call of toggleHeader names.                                  *)
LineAsked == IF call.n = 0 THEN "row" ELSE "column"

OtherLine(line) == IF line = "row" THEN "column" ELSE "row"

(* C19: toggleHeader('row') with the current policy, dispatched in a       *)
(* table, acts on the first row whatever the selection: with R = every     *)
(* cell anchored in row 0 is a header cell and C = every cell anchored in  *)
(* column 0 is a header cell, every cell anchored in row 0, except the one *)
(* in column 0 when C holds, becomes a plain cell if R holds and a header  *)
(* cell otherwise, and no other cell changes; toggleHeader('column') does  *)
(* the same with rows and columns exchanged.                               *)
C19_ToggleHeaderFirstLine ==
  (/\ Called("toggleHeader") /\ call.n \in {0, 1}
   /\ call.dispatch /\ isInTable(prev))
    => LET AsClaimed(old, pm, new, line) ==
             /\ out.ret /\ out.calls = 1 /\ ~out.threw
             /\ LineToggledAsClaimed(old, pm, new, line,
                                     HeaderLine(old, pm, line),
                                     HeaderLine(old, pm, OtherLine(line)))
       IN  AsClaimed(prev.table, PrevMap, state.table, LineAsked)

(* C19 witness: toggleHeader('row') applied to a table whose first column  *)
(* is a header column and whose first row is not a header row; a plain     *)
(* cell of the first row has become a header cell and a plain cell of the  *)
(* other rows is still plain.                                              *)
C19_Witness ==
  /\ Called("toggleHeader") /\ call.n = 0 /\ out.calls = 1
  /\ HeaderLine(prev.table, PrevMap, "column")
  /\ ~HeaderLine(prev.table, PrevMap, "row")
  /\ \E p, q \in CellPositions(prev.table) :
       /\ AnchorSlot(PrevMap, p - TableStart) \div PrevMap.width = 0
       /\ nodeAt(prev.table, p - TableStart).type = "cell"
       /\ nodeAt(state.table, p - TableStart).type = "header_cell"
       /\ AnchorSlot(PrevMap, q - TableStart) \div PrevMap.width > 0
       /\ nodeAt(prev.table, q - TableStart).type = "cell"
       /\ nodeAt(state.table, q - TableStart).type = "cell"

(* The rectangle a legacy toggle acts on: the selected rows over the full  *)
(* width, the selected columns over the full height, or the selected       *)
(* rectangle.                                                              *)
TargetRect(map, rect, cmd) ==
  CASE cmd = "toggleHeaderRow" ->
         [left |-> 0, top |-> rect.top,
          right |-> map.width, bottom |-> rect.bottom]
    [] cmd = "toggleHeaderColumn" ->
         [left |-> rect.left, top |-> 0,
          right |-> rect.right, bottom |-> map.height]
    [] OTHER ->
         [left |-> rect.left, top |-> rect.top,
          right |-> rect.right, bottom |-> rect.bottom]

(* The cell at pos of the grid is anchored in the rectangle T.             *)
AnchoredIn(map, T, pos) == SlotInRect(map, T, AnchorSlot(map, pos))

(* The table `new` is the table `old` (grid pm) after the legacy toggle of *)
(* T: the cells anchored in T are all plain cells if one of them was a     *)
(* header cell (the plain ones as they were) and all header cells          *)
(* otherwise, with the attributes and content they had; no other cell      *)
(* differs.                                                                *)
LegacyToggledAsClaimed(old, pm, new, T) ==
  LET positions == {p - TableStart : p \in CellPositions(old)}
      Given(anyHeader) ==
        /\ RolesForgotten(new) = RolesForgotten(old)
        /\ \A p \in positions :
             nodeAt(new, p)
               = IF AnchoredIn(pm, T, p)
                   THEN [nodeAt(old, p) EXCEPT
                           !.type = IF anyHeader THEN "cell"
                                    ELSE "header_cell"]
                   ELSE nodeAt(old, p)
        /\ \A p, q \in positions :
             (AnchoredIn(pm, T, p) /\ AnchoredIn(pm, T, q))
               => nodeAt(new, p).type = nodeAt(new, q).type
  IN  Given(\E p \in positions :
              /\ AnchoredIn(pm, T, p)
              /\ nodeAt(old, p).type = "header_cell")

LegacyToggles == {"toggleHeaderRow", "toggleHeaderColumn", "toggleHeaderCell"}

(* C20: toggleHeaderRow, toggleHeaderColumn and toggleHeaderCell,          *)
(* dispatched in a table, act on the target rectangle T (the selected rows *)
(* over the full width, the selected columns over the full height, the     *)
(* selected rectangle): if a cell anchored in T is a header cell, every    *)
(* header cell of T becomes a plain cell and the plain cells of T are      *)
(* untouched; if none is, every cell of T becomes a header cell.           *)
(* Afterwards all cells of T have the same role, cell attributes and       *)
(* content are as before, and no cell outside T has changed.               *)
C20_LegacyToggle ==
  (call.cmd \in LegacyToggles /\ call.dispatch /\ isInTable(prev))
    => LET AsClaimed(old, pm, new, rect) ==
             /\ out.ret /\ out.calls = 1 /\ ~out.threw
             /\ LegacyToggledAsClaimed(old, pm, new,
                                       TargetRect(pm, rect, call.cmd))
       IN  AsClaimed(prev.table, PrevMap, state.table, PrevRect)

(* C20 witness: toggleHeaderRow applied to rows that hold a header cell    *)
(* and a plain cell, in a table with a header cell in another row: the     *)
(* header cell of the rows is plain afterwards, the other is still a       *)
(* header cell.                                                            *)
C20_Witness ==
  /\ Called("toggleHeaderRow") /\ out.calls = 1
  /\ \E p, q, x \in {c - TableStart : c \in CellPositions(prev.table)} :
       LET In(T) ==
             /\ AnchoredIn(PrevMap, T, p)
             /\ nodeAt(prev.table, p).type = "header_cell"
             /\ nodeAt(state.table, p).type = "cell"
             /\ AnchoredIn(PrevMap, T, q)
             /\ nodeAt(prev.table, q).type = "cell"
             /\ ~AnchoredIn(PrevMap, T, x)
             /\ nodeAt(prev.table, x).type = "header_cell"
             /\ nodeAt(state.table, x).type = "header_cell"
       IN  In(TargetRect(PrevMap, PrevRect, call.cmd))

(* The cell that follows (dir = 1) or precedes (dir = -1) the cell at pos  *)
(* in document order within the table, -1 when there is none.              *)
NeighbourCell(table, pos, dir) ==
  LET Of(later, earlier) ==
        IF dir > 0
          THEN IF later = {} THEN -1
               ELSE CHOOSE q \in later : \A q2 \in later : q <= q2
          ELSE IF earlier = {} THEN -1
               ELSE CHOOSE q \in earlier : \A q2 \in earlier : q >= q2
  IN  Of({q \in CellPositions(table) : q > pos},
         {q \in CellPositions(table) : q < pos})

(* C21: for a selection in cell X of a table, goToNextCell(1) returns true *)
(* and moves the selection into the cell that follows X in document order  *)
(* in the table (the next cell of the row, or the first cell of the next   *)
(* non-empty row, in the same section or in a later one) and returns false *)
(* only when X is the last cell of the table; goToNextCell(-1) moves to    *)
(* the cell before X and returns false only when X is the first cell.      *)
C21_GoToNextCell ==
  (Called("goToNextCell") /\ isInTable(prev))
    => LET AsClaimed(target) ==
             /\ ~out.threw
             /\ out.ret = (target >= 0)
             /\ (call.dispatch /\ target >= 0)
                  => /\ out.calls = 1
                     /\ state.sel = TextSel(target)
                     /\ state.table = prev.table
       IN  AsClaimed(NeighbourCell(prev.table, selectionCell(prev), call.n))

(* C22: a command called on a selection that is not inside a table returns *)
(* false, does not call the dispatch callback (nor dispatch through the    *)
(* view), raises no error and leaves the state as it was; so the           *)
(* RangeError of selectionCell is not reached from a command.              *)
C22_RefusedOutsideTable ==
  (~Fresh /\ prev.sel.kind = "none")
    => /\ ~out.ret
       /\ out.calls = 0 /\ out.viewCalls = 0
       /\ ~out.threw
       /\ state = prev

(* C22 witness: a command whose first test is isInTable and that reads the *)
(* selected rectangle next has been called, with a dispatch callback, on a *)
(* selection outside the table and has dispatched nothing.                 *)
C22_Witness ==
  /\ call.cmd \in {"makeBody", "addBodyBefore", "goToNextCell", "deleteRow"}
  /\ call.dispatch
  /\ prev.sel.kind = "none" /\ ~isInTable(prev)
  /\ ~out.ret /\ out.calls = 0

(* Child ci of the table is a section with a row in [top, bottom).         *)
SectionTouched(table, ci, top, bottom) ==
  /\ isTableSection(table[ci])
  /\ RowIndexOf(table, ci, 1) < bottom
  /\ RowIndexOf(table, ci, 1) + Len(table[ci].rows) > top

(* The children of the table but for the sections with a row in            *)
(* [top, bottom), in order.                                                *)
RECURSIVE UntouchedFrom(_, _, _, _)
UntouchedFrom(table, ci, top, bottom) ==
  IF ci > Len(table) THEN <<>>
  ELSE (IF SectionTouched(table, ci, top, bottom) THEN <<>>
        ELSE <<table[ci]>>)
         \o UntouchedFrom(table, ci + 1, top, bottom)

(* C23: an applied deleteSection removes exactly the sections that hold a  *)
(* row of the selected rectangle and leaves the caption and the other      *)
(* sections as they were, in their order; deleteSection returns false and  *)
(* dispatches nothing when the rectangle covers all rows or touches every  *)
(* section, with a dispatch callback and without one, so a section always  *)
(* remains.                                                                *)
C23_DeleteSectionResult ==
  (Called("deleteSection") /\ isInTable(prev))
    => LET AsClaimed(old, new, rect, all) ==
             IF all \/ (rect.top = 0 /\ rect.bottom = rect.map.height)
               THEN WasRefused
               ELSE /\ out.ret /\ ~out.threw
                    /\ call.dispatch
                         => /\ out.calls = 1
                            /\ new = UntouchedFrom(old, 1, rect.top,
                                                   rect.bottom)
                            /\ \E ci \in 1..Len(new) :
                                 isTableSection(new[ci])
       IN  AsClaimed(prev.table, state.table, PrevRect,
                     \A ci \in 1..Len(prev.table) :
                       isTableSection(prev.table[ci])
                         => SectionTouched(prev.table, ci, PrevRect.top,
                                           PrevRect.bottom))

(* C24: no command modifies the grid map of the snapshot it is given:      *)
(* after every call, with a dispatch callback or without one, the cached   *)
(* TableMap of the input table has the section row counts (and the width,  *)
(* height and map, which no command writes) that the table gives, so a     *)
(* second call on the same snapshot sees the same grid map.                *)
C24_GridMapNotMutated ==
  ~Fresh => out.sectionRows = sectionRowsOf(prev.table)

(* The commands that edit the table through positions of its grid map.    *)
GridEdits ==
  {"addColumnBefore", "addColumnAfter", "deleteColumn", "addRowBefore",
   "addRowAfter", "deleteRow", "deleteSection", "mergeCells",
   "splitCellWithType"}

(* C25: within one command every mutation addresses, in the document as    *)
(* the earlier mutations of the transaction have left it, the node or the  *)
(* boundary its target in the grid of the input denotes: every             *)
(* setNodeMarkup finds a cell at its position, every insert a boundary     *)
(* between the nodes of the kind it inserts, every delete and replace the  *)
(* node it removes or fills. This for addColumn, removeColumn, addRow,     *)
(* removeRow, deleteSection, mergeCells and splitCellWithType, called      *)
(* through their commands on a rectangular table.                          *)
C25_MutationsOnTarget ==
  (call.cmd \in GridEdits /\ call.dispatch /\ isInTable(prev))
    => (~out.threw /\ out.exact)

(* The index, among the sections of the table, of child ci.                *)
SectionIndexOf(table, ci) ==
  Cardinality({c \in 1..(ci - 1) : isTableSection(table[c])})

(* C26: for a table with an optional caption and sections of at least one  *)
(* row each, and 0 <= r < height, getRow(table, r) returns the r-th row of *)
(* the table in document order, pos = the offset of the opening boundary   *)
(* of that row from the start of the content of the table, and section =   *)
(* the index among the sections of the section that holds it; for          *)
(* r = height it returns no node, pos = the offset right after the last    *)
(* row, inside the last section, and section = the index of the last       *)
(* section.                                                                *)
C26_GetRow ==
  Called("getRow")
    => LET AsClaimed(table, refs, r, got) ==
             IF r < Len(refs)
               THEN /\ got.node = refs[r + 1]
                    /\ got.pos = RowStart(table, refs[r + 1].ci,
                                          refs[r + 1].ri)
                    /\ got.section
                         = SectionIndexOf(table, refs[r + 1].ci)
               ELSE /\ ~got.node.found
                    /\ got.pos = ChildStart(table, Len(table))
                                   + ChildSize(table[Len(table)]) - 1
                    /\ got.pos = RowStart(table, refs[Len(refs)].ci,
                                          refs[Len(refs)].ri)
                                   + RowSize(RowOf(table, refs[Len(refs)]))
                    /\ got.section = Len(Sections(table)) - 1
       IN  AsClaimed(prev.table, RowRefs(prev.table), call.n, out.value)

(* C26 witness: getRow has been asked for a row of the second section of a *)
(* table with a caption and has returned it.                               *)
C26_Witness ==
  /\ Called("getRow")
  /\ tableHasCaption(prev.table)
  /\ Len(Sections(prev.table)) > 1
  /\ out.value.node.found
  /\ out.value.section = 1
  /\ out.value.pos > ChildStart(prev.table, 3)

(* C27: rowAtPos is the inverse of rowPos: rowAtPos(table, rowPos(table,   *)
(* r)) = r for 0 <= r < height, and rowAtPos(table, p) = r for every       *)
(* offset p from the opening boundary of row r up to, but excluding, its   *)
(* closing end; rowAtPos does not decrease as p grows and is height for    *)
(* the offsets at or beyond the end of the last section.                   *)
C27_RowAtPosInvertsRowPos ==
  Called("rowAtPos")
    => LET AsClaimed(table, refs, p, got) ==
             /\ \A r \in 0..(Len(refs) - 1) :
                  /\ p = rowPos(table, r) => got = r
                  /\ (/\ RowStart(table, refs[r + 1].ci, refs[r + 1].ri) <= p
                      /\ p < RowStart(table, refs[r + 1].ci, refs[r + 1].ri)
                               + RowSize(RowOf(table, refs[r + 1])))
                       => got = r
             /\ p > 0 => rowAtPos(table, p - 1) <= got
             /\ p >= TableContentSize(table) => got = Len(refs)
       IN  AsClaimed(prev.table, RowRefs(prev.table), call.n, out.value)

(* C27 witness: rowAtPos has been asked for an offset inside a cell of a   *)
(* row of the second section of a table with a caption.                    *)
C27_Witness ==
  /\ Called("rowAtPos")
  /\ tableHasCaption(prev.table)
  /\ Len(Sections(prev.table)) > 1
  /\ Resolve(prev.table, call.n).depth = "cell"
  /\ Resolve(prev.table, call.n).ci = 3
  /\ out.value = RowIndexOf(prev.table, 3, Resolve(prev.table, call.n).ri)

(* The cell at pos of the grid occupies a column of [left, right).         *)
InColumns(table, map, pos, left, right) ==
  /\ AnchorSlot(map, pos) % map.width < right
  /\ (AnchorSlot(map, pos) % map.width) + nodeAt(table, pos).colspan > left

(* The widths the vector supplies, from column left on, for the columns of *)
(* the cell at pos; <<>> when it does not supply them all.                 *)
SuppliedWidths(table, map, pos, left, widths) ==
  LET Of(col, colspan) ==
        IF col < left \/ col + colspan > left + Len(widths) THEN <<>>
        ELSE [i \in 1..colspan |-> widths[col - left + i]]
  IN  Of(AnchorSlot(map, pos) % map.width, nodeAt(table, pos).colspan)

(* What the claim says of the table `new` that the assignment of widths    *)
(* from column left on leaves of the table `old` (grid pm).                *)
WidthsAssignedAsClaimed(old, pm, new, left, right, widths) ==
  LET positions == {p - TableStart : p \in CellPositions(old)}
      Covered == {p \in positions : InColumns(old, pm, p, left, right)}
  IN  /\ CellPositions(new) = CellPositions(old)
      /\ \A p \in Covered :
           /\ SuppliedWidths(old, pm, p, left, widths) # <<>>
           /\ nodeAt(new, p)
                = [nodeAt(old, p) EXCEPT
                     !.colwidth = SuppliedWidths(old, pm, p, left, widths)]
      /\ \A p \in positions \ Covered : nodeAt(new, p) = nodeAt(old, p)
      /\ out.steps
           = Cardinality({p \in Covered :
                            nodeAt(old, p).colwidth
                              # SuppliedWidths(old, pm, p, left, widths)})
      /\ out.calls = IF out.steps = 0 THEN 0 ELSE 1

(* C28: after updateColumnWidthsTransaction with first column left and     *)
(* width vector widths, every cell that occupies a column of               *)
(* [left, min(left + |widths|, width)) has a colwidth as long as its       *)
(* colspan whose i-th entry is the width supplied for grid column (anchor  *)
(* column + i); each such cell is written at most once, a cell whose       *)
(* colwidth is that slice already gets no mutation, the other cells are    *)
(* unchanged, and when no cell needs a change no transaction is issued.    *)
C28_ColumnWidthsAssigned ==
  Called("updateColumnWidths")
    => LET AsClaimed(old, pm, new, widths) ==
             /\ ~out.threw
             /\ WidthsAssignedAsClaimed(old, pm, new, 0,
                                        Min(Len(widths), pm.width), widths)
       IN  AsClaimed(prev.table, PrevMap, state.table, call.rel)

(* Every cell of the table lies within the rows of one section: the rows   *)
(* r .. r + rowspan - 1 of a cell that starts in row r exist and belong to *)
(* the child of the table that holds row r.                                *)
CellsWithinSections(table) ==
  LET Within(refs) ==
        \A r \in 1..Len(refs) :
          \A k \in 1..Len(RowOf(table, refs[r])) :
            LET last == r + RowOf(table, refs[r])[k].rowspan - 1
            IN  /\ last <= Len(refs)
                /\ refs[last].ci = refs[r].ci
  IN  Within(RowRefs(table))

(* C29: starting from a table in which every cell's rows lie within one    *)
(* section, after an applied makeHead, makeBody or makeFoot every cell's   *)
(* footprint still lies within the rows of a single section.               *)
C29_CellsStayInOneSection ==
  (MakeSectionApplied /\ CellsWithinSections(prev.table))
    => CellsWithinSections(state.table)

====
